---- MODULE Spec2Model ----
(***************************************************************************)
(* Model of the Windows Shell Link (.lnk) codec of frost_wizard.           *)
(*                                                                         *)
(* The parser is modelled at byte level: an input is a sequence of bytes,  *)
(* every reader is a cursor (buffer, bytes consumed, limit) and every      *)
(* sub-parser is an operator that returns either a value with the new      *)
(* cursor position, an error (the path of error variants, outermost        *)
(* first) or a panic.  Lnk::parse and Lnk::write are state machines whose  *)
(* program counter walks through the stages of the function body.          *)
(*                                                                         *)
(* The repository holds two drafts of the ID-list decoder; `draft` selects *)
(* which one is linked: "lnk_rs" (lnk-rs/src/lnk/id_list.rs) or "src"      *)
(* (src/lnk/id_list.rs).  Arithmetic that overflows panics in a debug      *)
(* build and wraps in a release build; `build` selects the build.          *)
(***************************************************************************)
EXTENDS Integers, Sequences, FiniteSets, TLC

VARIABLES
    draft,          \* which ID-list draft is linked: "lnk_rs" or "src"
    build,          \* "debug" (overflow checks on) or "release" (wrapping)
    input,          \* the bytes handed to Lnk::parse
    pc,             \* position inside Lnk::parse
    pos,            \* number of bytes of input consumed so far
    lnk,            \* the fields of Lnk decoded so far
    idl,            \* locals of IdList::parse: lim, raw_list_items, id_list
    blk,            \* locals of BlockData::parse: log of the blocks handled
    result,         \* what Lnk::parse returned
    wlnk,           \* the Lnk value handed to Lnk::write
    out,            \* the bytes Lnk::write has emitted
    wpc,            \* position inside Lnk::write
    wresult,        \* what Lnk::write returned
    call,           \* a helper called on its own: its name and arguments
    ret,            \* what that helper returned
    reader,         \* the EmbeddedReader: its file, the file's cursor, start, end, position
    writer,         \* the AppendDataWriter: its file, the file's cursor, initial_start, start, flushed
    ui,             \* the InstallerUi with its BasicWizard, and the last message given to update
    io              \* the last call made on a reader or writer and what it returned

vars == <<draft, build, input, pc, pos, lnk, idl, blk, result, wlnk, out, wpc, wresult,
          call, ret, reader, writer, io, ui>>

parseVars == <<draft, build, input, pc, pos, lnk, idl, blk, result>>
writeVars == <<wlnk, out, wpc, wresult>>
callVars == <<call, ret>>
hostVars == <<reader, writer, io, ui>>

----------------------------------------------------------------------------
(* Bounds of the model.                                                    *)

\* largest number of unparsed bytes appended after the terminal block
MaxTail == 2
\* largest number of surplus payload bytes declared by an extension block
MaxSlack == 2

\* u32 values at or above BIG are represented by BIG: every buffer of the
\* model is far shorter, and the code compares such values only with small
\* constants or uses them as read limits.
BIG == 1073741824

----------------------------------------------------------------------------
(* Results of sub-parsers.                                                 *)

None == [some |-> FALSE]
Some(x) == [some |-> TRUE, v |-> x]

Ok(x, p) == [st |-> "ok", e |-> <<>>, v |-> x, pos |-> p]
Er(name) == [st |-> "err", e |-> <<name>>, v |-> <<>>, pos |-> 0]
Pn(why) == [st |-> "panic", e |-> <<why>>, v |-> <<>>, pos |-> 0]
\* error conversion of `?` through a #[from] variant
Wrap(name, r) == IF r.st = "err" THEN [r EXCEPT !.e = <<name>> \o r.e] ELSE r

\* `let a = r?; F(a)`: the failure of r is returned, else F goes on with
\* the value and the reader's position
AndThen(r, F(_)) == CHOOSE y \in {IF a.st # "ok" THEN a ELSE F(a) : a \in {r}} : TRUE
\* `let a = v; F(a)`
LetIn(v, F(_)) == CHOOSE y \in {F(a) : a \in {v}} : TRUE

Min(a, b) == IF a < b THEN a ELSE b
Max(a, b) == IF a > b THEN a ELSE b

\* u32::saturating_sub on values below BIG
SatSub(a, b) == IF a >= b THEN a - b ELSE 0

HasBit(n, k) == (n \div (2 ^ k)) % 2 = 1
SetBit(n, k, on) == IF on = HasBit(n, k) THEN n
                    ELSE IF on THEN n + 2 ^ k ELSE n - 2 ^ k

----------------------------------------------------------------------------
(* helpers.rs: fixed-width little-endian readers.  b is the buffer, p the  *)
(* number of bytes consumed, l the limit of the (possibly bounded) reader. *)

read_u8(b, p, l) ==
    IF p + 1 <= l THEN Ok(b[p + 1], p + 1) ELSE Er("IoError")

read_u16(b, p, l) ==
    IF p + 2 <= l THEN Ok(b[p + 1] + 256 * b[p + 2], p + 2) ELSE Er("IoError")

\* the four bytes of a u32, least significant first
read_u32_raw(b, p, l) ==
    IF p + 4 <= l THEN Ok(<<b[p + 1], b[p + 2], b[p + 3], b[p + 4]>>, p + 4)
    ELSE Er("IoError")

U32Sat(q) == IF q[4] >= 64 THEN BIG
             ELSE q[1] + 256 * q[2] + 65536 * q[3] + 16777216 * q[4]

read_u32(b, p, l) ==
    AndThen(read_u32_raw(b, p, l), LAMBDA r : Ok(U32Sat(r.v), r.pos))

read_i32(b, p, l) == read_u32_raw(b, p, l)

read_exact(b, p, l, n) ==
    IF p + n <= l THEN Ok(SubSeq(b, p + 1, p + n), p + n) ELSE Er("IoError")

\* Read::take(n): the limit of the bounded sub-reader
Take(p, l, n) == Min(l, p + n)

----------------------------------------------------------------------------
(* helpers.rs: Windows FILETIME.  A u64 is held as 20 decimal digits,      *)
(* least significant first, so that no intermediate exceeds 32 bits.       *)

WINDOWS_EPOCH == <<0, 0, 6, 3, 7, 4, 4, 4, 6, 1, 1, 0, 0>>

RECURSIVE MulAddFrom(_, _, _, _)
MulAddFrom(d, i, m, carry) ==
    IF i > Len(d) THEN <<>>
    ELSE LET t == d[i] * m + carry
         IN <<t % 10>> \o MulAddFrom(d, i + 1, m, t \div 10)

RECURSIVE U64Digits(_, _)
U64Digits(bytes, k) ==
    IF k = 0 THEN [i \in 1..20 |-> 0]
    ELSE MulAddFrom(U64Digits(bytes, k - 1), 1, 256, bytes[Len(bytes) - k + 1])

\* bytes are little-endian: U64Digits folds from the last byte down
U64FromLe(bytes) == U64Digits(bytes, Len(bytes))

RECURSIVE DigitsGeFrom(_, _, _)
DigitsGeFrom(a, b, i) ==
    IF i = 0 THEN TRUE
    ELSE IF a[i] > b[i] THEN TRUE
    ELSE IF a[i] < b[i] THEN FALSE
    ELSE DigitsGeFrom(a, b, i - 1)

RECURSIVE DigitsSubFrom(_, _, _, _)
DigitsSubFrom(a, b, i, borrow) ==
    IF i > Len(a) THEN <<>>
    ELSE LET t == a[i] - b[i] - borrow
         IN <<(t + 10) % 10>> \o DigitsSubFrom(a, b, i + 1, IF t < 0 THEN 1 ELSE 0)

\* variant: the difference without the check, as a wrapping subtraction
wrapping_sub(a, b) == DigitsSubFrom(a, b, 1, 0)

\* u64::saturating_sub
saturating_sub(a, b) ==
    IF DigitsGeFrom(a, b, Len(a)) THEN DigitsSubFrom(a, b, 1, 0)
    ELSE [i \in 1..Len(a) |-> 0]

\* The value is the unix timestamp in seconds (13 decimal digits).  The
\* largest one, (2^64 - 1) / 10^7 - WINDOWS_EPOCH, lies inside the range of
\* DateTime::from_timestamp, so InvalidTimestamp is never produced.
read_windows_datetime(b, p, l) ==
    AndThen(read_exact(b, p, l, 8), LAMBDA r :
    Ok(saturating_sub(SubSeq(U64FromLe(r.v), 8, 20), WINDOWS_EPOCH), r.pos))

----------------------------------------------------------------------------
(* lnk.rs: constants of the header.                                        *)

SIGNATURE == <<76, 0, 0, 0>>
GUID == <<1, 20, 2, 0, 0, 0, 0, 0, 192, 0, 0, 0, 0, 0, 0, 70>>

\* bit numbers of LinkFlags
HAS_LINK_TARGET_ID_LIST == 0
HAS_LINK_INFO == 1
HAS_NAME == 2
HAS_RELATIVE_PATH == 3
HAS_WORKING_DIR == 4
HAS_ARGUMENTS == 5
HAS_ICON_LOCATION == 6
IS_UNICODE == 7
FORCE_NO_LINK_INFO == 8
HAS_EXP_ICON == 14
\* number of named bits of LinkFlags (bits 0..26) and FileAttributeFlags (0..14)
LinkFlagBits == 27
FileFlagBits == 15

\* bitflags from_bits: None when a bit outside the named ones is set
LinkFlags_from_bits(v) == IF v < 2 ^ LinkFlagBits THEN Some(v) ELSE None
FileAttributeFlags_from_bits(v) == IF v < 2 ^ FileFlagBits THEN Some(v) ELSE None

ShowCommand_from_u32(v) ==
    CASE v = 1 -> Some("Normal")
      [] v = 3 -> Some("GrabFocus")
      [] v = 7 -> Some("SkipFocus")
      [] OTHER -> None

ShowCommand_to_u32(s) ==
    CASE s = "Normal" -> 1
      [] s = "GrabFocus" -> 3
      [] s = "SkipFocus" -> 7

----------------------------------------------------------------------------
(* helpers.rs: strings.  A String is the sequence of its code points.      *)

IsHighSurrogate(u) == u >= 55296 /\ u <= 56319
IsLowSurrogate(u) == u >= 56320 /\ u <= 57343

\* String::from_utf16: unpaired surrogates are an error
RECURSIVE from_utf16(_, _)
from_utf16(units, i) ==
    IF i > Len(units) THEN Ok(<<>>, 0)
    ELSE IF IsHighSurrogate(units[i])
    THEN IF i + 1 <= Len(units) /\ IsLowSurrogate(units[i + 1])
         THEN AndThen(from_utf16(units, i + 2), LAMBDA r :
              Ok(<<65536 + (units[i] - 55296) * 1024 + (units[i + 1] - 56320)>> \o r.v, 0))
         ELSE Er("Utf16Error")
    ELSE IF IsLowSurrogate(units[i]) THEN Er("Utf16Error")
    ELSE AndThen(from_utf16(units, i + 1), LAMBDA r : Ok(<<units[i]>> \o r.v, 0))

IsCont(x) == x >= 128 /\ x <= 191

\* the length of the well-formed UTF-8 sequence that starts at bs[i], or 0
Utf8Len(bs, i) ==
    LET c == bs[i]
        n == Len(bs)
    IN IF c < 128 THEN 1
       ELSE IF c >= 194 /\ c <= 223
       THEN (IF i + 1 <= n /\ IsCont(bs[i + 1]) THEN 2 ELSE 0)
       ELSE IF c >= 224 /\ c <= 239
       THEN (IF /\ i + 2 <= n
                /\ IsCont(bs[i + 1]) /\ IsCont(bs[i + 2])
                /\ (c = 224 => bs[i + 1] >= 160)
                /\ (c = 237 => bs[i + 1] <= 159)
             THEN 3 ELSE 0)
       ELSE IF c >= 240 /\ c <= 244
       THEN (IF /\ i + 3 <= n
                /\ IsCont(bs[i + 1]) /\ IsCont(bs[i + 2]) /\ IsCont(bs[i + 3])
                /\ (c = 240 => bs[i + 1] >= 144)
                /\ (c = 244 => bs[i + 1] <= 143)
             THEN 4 ELSE 0)
       ELSE 0

\* the code point of the well-formed sequence of k bytes at bs[i]
Utf8CodePoint(bs, i, k) ==
    CASE k = 1 -> bs[i]
      [] k = 2 -> (bs[i] - 192) * 64 + (bs[i + 1] - 128)
      [] k = 3 -> (bs[i] - 224) * 4096 + (bs[i + 1] - 128) * 64 + (bs[i + 2] - 128)
      [] k = 4 -> (bs[i] - 240) * 262144 + (bs[i + 1] - 128) * 4096
                  + (bs[i + 2] - 128) * 64 + (bs[i + 3] - 128)

\* String::from_utf8: well-formed UTF-8 only (no overlong forms, no
\* surrogates, nothing above U+10FFFF)
RECURSIVE from_utf8(_, _)
from_utf8(bs, i) ==
    IF i > Len(bs) THEN Ok(<<>>, 0)
    ELSE LetIn(Utf8Len(bs, i), LAMBDA k :
         IF k = 0 THEN Er("Utf8Error")
         ELSE AndThen(from_utf8(bs, i + k), LAMBDA r :
              Ok(<<Utf8CodePoint(bs, i, k)>> \o r.v, 0)))

\* the u16 code units of an even-length byte string
Units(bs) == [i \in 1..(Len(bs) \div 2) |-> bs[2 * i - 1] + 256 * bs[2 * i]]

read_sized_utf16(b, p, l) ==
    AndThen(read_u16(b, p, l), LAMBDA rs :
    AndThen(read_exact(b, rs.pos, l, rs.v * 2), LAMBDA rb :
    AndThen(from_utf16(Units(rb.v), 1), LAMBDA d : Ok(d.v, rb.pos))))

read_sized_utf8(b, p, l) ==
    AndThen(read_u16(b, p, l), LAMBDA rs :
    AndThen(read_exact(b, rs.pos, l, rs.v), LAMBDA rb :
    AndThen(from_utf8(rb.v, 1), LAMBDA d : Ok(d.v, rb.pos))))

read_sized_string(b, p, l, utf16) ==
    IF utf16 THEN read_sized_utf16(b, p, l) ELSE read_sized_utf8(b, p, l)

\* the code units before the first NUL unit, and the position after it
RECURSIVE ScanUnits(_, _, _)
ScanUnits(b, p, l) ==
    AndThen(read_u16(b, p, l), LAMBDA u :
    IF u.v = 0 THEN Ok(<<>>, u.pos)
    ELSE AndThen(ScanUnits(b, u.pos, l), LAMBDA r : Ok(<<u.v>> \o r.v, r.pos)))

read_c_utf16(b, p, l) ==
    AndThen(ScanUnits(b, p, l), LAMBDA s :
    AndThen(from_utf16(s.v, 1), LAMBDA d : Ok(d.v, s.pos)))

\* the bytes before the first NUL byte, and the position after it
RECURSIVE ScanBytes(_, _, _)
ScanBytes(b, p, l) ==
    AndThen(read_u8(b, p, l), LAMBDA c :
    IF c.v = 0 THEN Ok(<<>>, c.pos)
    ELSE AndThen(ScanBytes(b, c.pos, l), LAMBDA r : Ok(<<c.v>> \o r.v, r.pos)))

\* variant: the pad byte is read when the string has an odd number of bytes
read_c_utf8_pad_odd(b, p, l, padding) ==
    AndThen(ScanBytes(b, p, l), LAMBDA s :
    AndThen(IF padding /\ Len(s.v) % 2 = 1 THEN read_u8(b, s.pos, l) ELSE Ok(0, s.pos),
            LAMBDA pad :
    AndThen(from_utf8(s.v, 1), LAMBDA d : Ok(d.v, pad.pos))))

read_c_utf8(b, p, l, padding) ==
    AndThen(ScanBytes(b, p, l), LAMBDA s :
    AndThen(IF padding /\ Len(s.v) % 2 = 0 THEN read_u8(b, s.pos, l) ELSE Ok(0, s.pos),
            LAMBDA pad :
    AndThen(from_utf8(s.v, 1), LAMBDA d : Ok(d.v, pad.pos))))

----------------------------------------------------------------------------
(* helpers.rs: DOS date and time.                                          *)

get_bits(short, start, length) == (short \div (2 ^ start)) % (2 ^ length)

IsLeap(y) == (y % 4 = 0 /\ y % 100 # 0) \/ y % 400 = 0
DaysInMonth(y, m) ==
    IF m = 2 THEN (IF IsLeap(y) THEN 29 ELSE 28)
    ELSE IF m \in {4, 6, 9, 11} THEN 30 ELSE 31

\* NaiveDate::from_ymd_opt and NaiveTime::from_hms_opt
from_ymd_opt(y, m, d) == m >= 1 /\ m <= 12 /\ d >= 1 /\ d <= DaysInMonth(y, m)
from_hms_opt(h, mi, s) == h < 24 /\ mi < 60 /\ s < 60

\* variant: the day field is used as it is read
read_dos_datetime_day_unclamped(b, p, l) ==
    AndThen(read_u16(b, p, l), LAMBDA rd :
    AndThen(read_u16(b, rd.pos, l), LAMBDA rt :
    LET year == get_bits(rd.v, 9, 7) + 1980
        month == Max(get_bits(rd.v, 5, 4), 1)
        day == get_bits(rd.v, 0, 5)
    IN IF ~from_ymd_opt(year, month, day) THEN Er("InvalidDosDate")
       ELSE IF ~from_hms_opt(get_bits(rt.v, 11, 5), get_bits(rt.v, 5, 6),
                             get_bits(rt.v, 0, 5))
       THEN Er("InvalidDosTime")
       ELSE Ok(<<year, month, day, get_bits(rt.v, 11, 5), get_bits(rt.v, 5, 6),
                 get_bits(rt.v, 0, 5)>>, rt.pos)))

read_dos_datetime(b, p, l) ==
    AndThen(read_u16(b, p, l), LAMBDA rd :
    AndThen(read_u16(b, rd.pos, l), LAMBDA rt :
    LET year == get_bits(rd.v, 9, 7) + 1980
        month == Max(get_bits(rd.v, 5, 4), 1)
        day == Max(get_bits(rd.v, 0, 5), 1)
        hour == get_bits(rt.v, 11, 5)
        minute == get_bits(rt.v, 5, 6)
        second == get_bits(rt.v, 0, 5)
    IN IF ~from_ymd_opt(year, month, day) THEN Er("InvalidDosDate")
       ELSE IF ~from_hms_opt(hour, minute, second) THEN Er("InvalidDosTime")
       ELSE Ok(<<year, month, day, hour, minute, second>>, rt.pos)))

\* bitwise operations on u16
Bit16(n, i) == (n \div (2 ^ i)) % 2
And16(a, b) == LET bit(i) == Bit16(a, i) * Bit16(b, i) * (2 ^ i)
               IN bit(0) + bit(1) + bit(2) + bit(3) + bit(4) + bit(5) + bit(6) + bit(7)
                  + bit(8) + bit(9) + bit(10) + bit(11) + bit(12) + bit(13) + bit(14)
                  + bit(15)
Not16(a) == 65535 - a
Or16(a, b) == Not16(And16(Not16(a), Not16(b)))

\* set_bits: the new value of `short`.  value is shifted as it is, without
\* the mask; the bits shifted past bit 15 are lost.
set_bits(short, value, start, length) ==
    LetIn((2 ^ length) - 1, LAMBDA mask :
    LetIn((value * (2 ^ start)) % 65536, LAMBDA shifted :
    Or16(And16(short, Not16((mask * (2 ^ start)) % 65536)), shifted)))

\* write_dos_datetime: the four bytes for <<year, month, day, hour, minute,
\* second>>
write_dos_datetime(datetime) ==
    LetIn(SatSub(datetime[1], 1980) % 65536, LAMBDA year :
    LetIn(set_bits(set_bits(set_bits(0, year, 9, 7), datetime[2], 5, 4),
                   datetime[3], 0, 5), LAMBDA date :
    LetIn(set_bits(set_bits(set_bits(0, datetime[4], 11, 5), datetime[5], 5, 6),
                   datetime[6], 0, 5), LAMBDA time :
    <<date % 256, date \div 256, time % 256, time \div 256>>)))

----------------------------------------------------------------------------
(* helpers.rs: GUIDs.  A Guid is held as its 16 bytes in file order.       *)

HexDigit == <<"0", "1", "2", "3", "4", "5", "6", "7",
              "8", "9", "A", "B", "C", "D", "E", "F">>
Hex2(x) == HexDigit[(x \div 16) + 1] \o HexDigit[(x % 16) + 1]

read_guid(b, p, l) == read_exact(b, p, l, 16)

\* impl Debug for Guid / ToString: data1, data2 and data3 are little-endian
\* integers printed as upper-case hex, data4 is printed byte by byte; the
\* format string carries no braces
Guid_to_string(g) ==
    Hex2(g[4]) \o Hex2(g[3]) \o Hex2(g[2]) \o Hex2(g[1]) \o "-" \o
    Hex2(g[6]) \o Hex2(g[5]) \o "-" \o Hex2(g[8]) \o Hex2(g[7]) \o "-" \o
    Hex2(g[9]) \o Hex2(g[10]) \o "-" \o
    Hex2(g[11]) \o Hex2(g[12]) \o Hex2(g[13]) \o Hex2(g[14]) \o Hex2(g[15]) \o Hex2(g[16])

----------------------------------------------------------------------------
(* id_list.rs: decoding of one raw item.                                   *)

RootLocationType_from_text_guid(text) ==
    CASE text = "{20D04FE0-3AEA-1069-A2D8-08002B30309D}" -> Some("MyComputer")
      [] text = "{450D8FBA-AD25-11D0-98A8-0800361B1103}" -> Some("MyDocuments")
      [] text = "{54a754c0-4bf1-11d1-83ee-00a0c90dc849}" -> Some("NetworkShare")
      [] text = "{c0542a90-4bf0-11d1-83ee-00a0c90dc849}" -> Some("NetworkServer")
      [] text = "{208D2C60-3AEA-1069-A2D7-08002B30309D}" -> Some("NetworkPlaces")
      [] text = "{46e06680-4bf0-11d1-83ee-00a0c90dc849}" -> Some("NetworkDomain")
      [] text = "{871C5380-42A0-1069-A2EA-08002B30309D}" -> Some("Internet")
      [] text = "{645FF040-5081-101B-9F08-00AA002F954E}" -> Some("RecycleBin")
      [] text = "{21EC2020-3AEA-1069-A2DD-08002B30309D}" -> Some("ControlPanel")
      [] text = "{59031A47-3F72-44A7-89C5-5595FE6B30EE}" -> Some("User")
      [] text = "{4234D49B-0245-4DF3-B780-3893943456E1}" -> Some("UwpApps")
      [] OTHER -> None

\* lnk-rs draft: the text compared with the table is Guid::to_string
RootLocationType_from_guid(g) ==
    RootLocationType_from_text_guid(Guid_to_string(g))

\* src draft: the text is formatted with surrounding braces
RootLocationType_from_binary_guid(g) ==
    RootLocationType_from_text_guid("{" \o Guid_to_string(g) \o "}")

EntryType_from_type_id(type_id) ==
    CASE type_id = 0 -> Some("KnownFolder")
      [] type_id = 49 -> Some("Folder")
      [] type_id = 50 -> Some("File")
      [] type_id = 53 -> Some("FolderUnicode")
      [] type_id = 54 -> Some("FileUnicode")
      [] type_id = 32814 -> Some("KnownRootFolder")
      [] type_id = 31 -> Some("RootFolder")
      [] type_id = 97 -> Some("Uri")
      [] type_id = 113 -> Some("ControlPanel")
      [] OTHER -> None

EntryType_is_unicode(t) == t \in {"FileUnicode", "FolderUnicode"}

\* 0xbeef0004, least significant byte first
EXTRA_SIGNATURE == <<4, 0, 239, 190>>

\* the body of `if extra_signature == 0xbeef0004 { ... }`: l is the limit of
\* data.take(extra_size)
ParseExtraData(b, p, l, extra_version) ==
    AndThen(Wrap("DosTimeError", read_dos_datetime(b, p, l)), LAMBDA created :
    AndThen(Wrap("DosTimeError", read_dos_datetime(b, created.pos, l)), LAMBDA accessed :
    AndThen(read_u16(b, accessed.pos, l), LAMBDA offset_unicode :
    \* _offset_ansi (u16), _file_reference (u64), _unknown_2 (u64)
    AndThen(IF extra_version >= 7 THEN read_exact(b, offset_unicode.pos, l, 18)
            ELSE Ok(<<>>, offset_unicode.pos), LAMBDA v7 :
    AndThen(IF extra_version >= 3 THEN read_u16(b, v7.pos, l)
            ELSE Ok(0, v7.pos), LAMBDA long_string_size :
    AndThen(IF extra_version >= 9 THEN read_exact(b, long_string_size.pos, l, 4)
            ELSE Ok(<<>>, long_string_size.pos), LAMBDA v9 :
    AndThen(IF extra_version >= 8 THEN read_exact(b, v9.pos, l, 4)
            ELSE Ok(<<>>, v9.pos), LAMBDA v8 :
    AndThen(IF extra_version >= 3
            THEN Wrap("StringReadError", read_c_utf16(b, v8.pos, l))
            ELSE Ok(<<>>, v8.pos), LAMBDA full_name :
    AndThen(IF extra_version >= 3 /\ long_string_size.v > 0
            THEN Wrap("StringReadError",
                      IF extra_version >= 7
                      THEN read_c_utf16(b, full_name.pos, l)
                      ELSE read_c_utf8(b, full_name.pos, l, FALSE))
            ELSE Ok(<<>>, full_name.pos), LAMBDA localized :
    AndThen(IF extra_version >= 3 THEN read_u16(b, localized.pos, l)
            ELSE Ok(0, localized.pos), LAMBDA version_offset :
    \* read_to_end of the bounded reader
    IF l - version_offset.pos # 0 THEN Er("BytesLeft")
    ELSE Ok([created |-> Some(created.v),
             accessed |-> Some(accessed.v),
             full_name |-> IF extra_version >= 3 THEN Some(full_name.v) ELSE None,
             localized_name |-> IF extra_version >= 3 /\ long_string_size.v > 0
                                THEN Some(localized.v) ELSE None], l)))))))))))

\* the File / FileUnicode / Folder / FolderUnicode arm of IdEntry::parse
ParseEntryData(b, p, l, entry_type) ==
    AndThen(read_u32_raw(b, p, l), LAMBDA filesize :
    AndThen(Wrap("DosTimeError", read_dos_datetime(b, filesize.pos, l)), LAMBDA modified :
    AndThen(read_u16(b, modified.pos, l), LAMBDA file_attributes_l :
    AndThen(Wrap("StringReadError",
                 IF EntryType_is_unicode(entry_type)
                 THEN read_c_utf16(b, file_attributes_l.pos, l)
                 ELSE read_c_utf8(b, file_attributes_l.pos, l, TRUE)), LAMBDA short_name :
    AndThen(read_u16(b, short_name.pos, l), LAMBDA extra_size :
    AndThen(read_u16(b, extra_size.pos, l), LAMBDA extra_version :
    AndThen(read_u32_raw(b, extra_version.pos, l), LAMBDA extra_signature :
    AndThen(IF extra_signature.v = EXTRA_SIGNATURE
            THEN ParseExtraData(b, extra_signature.pos,
                                Take(extra_signature.pos, l, extra_size.v),
                                extra_version.v)
            ELSE Ok([created |-> None, accessed |-> None,
                     full_name |-> None, localized_name |-> None],
                    extra_signature.pos), LAMBDA extra :
    Ok([t |-> IF entry_type \in {"File", "FileUnicode"} THEN "File" ELSE "Folder",
        filesize |-> filesize.v,
        modified |-> modified.v,
        short_name |-> short_name.v,
        created |-> extra.v.created,
        accessed |-> extra.v.accessed,
        full_name |-> extra.v.full_name,
        localized_name |-> extra.v.localized_name], extra.pos)))))))))

\* the RootGuid arm
ParseRoot(b, p, l, d) ==
    AndThen(read_u8(b, p, l), LAMBDA root_index :
    AndThen(read_guid(b, root_index.pos, l), LAMBDA guid :
    LetIn(IF d = "lnk_rs" THEN RootLocationType_from_guid(guid.v)
          ELSE RootLocationType_from_binary_guid(guid.v), LAMBDA root :
    IF ~root.some THEN Er("InvalidRootType")
    ELSE Ok([t |-> "Root", root |-> root.v], guid.pos))))

\* the Drive arm
ParseDrive(b, p, l) ==
    AndThen(read_u8(b, p, l), LAMBDA letter :
    IF ~(letter.v >= 65 /\ letter.v <= 90) THEN Er("InvalidDriveEntry") ELSE
    AndThen(read_u8(b, letter.pos, l), LAMBDA colon :
    IF colon.v # 58 THEN Er("InvalidDriveEntry") ELSE
    AndThen(read_u8(b, colon.pos, l), LAMBDA slash :
    IF slash.v # 92 THEN Er("InvalidDriveEntry") ELSE
    AndThen(read_exact(b, slash.pos, l, 19), LAMBDA junk_data :
    Ok([t |-> "Drive", letter |-> letter.v], junk_data.pos)))))

\* IdEntry::parse on one raw item; d is the draft
IdEntry_parse(item, d) ==
    AndThen(read_u8(item, 0, Len(item)), LAMBDA first_type_byte :
    IF first_type_byte.v = 31 THEN ParseRoot(item, 1, Len(item), d)
    ELSE IF first_type_byte.v = 47 THEN ParseDrive(item, 1, Len(item))
    ELSE AndThen(read_u8(item, 1, Len(item)), LAMBDA second_type_byte :
         LetIn(EntryType_from_type_id(first_type_byte.v + 256 * second_type_byte.v),
               LAMBDA entry_type :
         IF ~entry_type.some THEN Er("InvalidEntryType")
         ELSE IF entry_type.v \in {"File", "FileUnicode", "Folder", "FolderUnicode"}
         THEN ParseEntryData(item, 2, Len(item), entry_type.v)
         ELSE Er("UnsupportedEntryType"))))

----------------------------------------------------------------------------
(* id_list.rs: IdList::parse.                                              *)

\* the first loop: raw items up to the terminator.  An item length of 1
\* makes `item_length as usize - 2` overflow: a debug build panics there, a
\* release build wraps and panics in the allocation of usize::MAX bytes.
RECURSIVE ReadRawItems(_, _, _)
ReadRawItems(b, p, l) ==
    AndThen(read_u16(b, p, l), LAMBDA item_length :
    IF item_length.v = 0 THEN Ok(<<>>, item_length.pos) ELSE
    IF item_length.v < 2 THEN Pn("item_length - 2") ELSE
    AndThen(read_exact(b, item_length.pos, l, item_length.v - 2), LAMBDA item_data :
    AndThen(ReadRawItems(b, item_data.pos, l), LAMBDA more :
    Ok(<<item_data.v>> \o more.v, more.pos))))

APPS == <<65, 80, 80, 83>>

\* variant: the marker is looked for at the start of the item
IsUwpAtStart(item) == Len(item) >= 4 /\ SubSeq(item, 1, 4) = APPS

\* item.get(4..8) == Some(b"APPS")
IsUwp(item) == Len(item) >= 8 /\ SubSeq(item, 5, 8) = APPS

\* the match on id_list.last() inside the second loop: "" when the entry
\* may follow, else the error
Transition(id_list, id_entry) ==
    IF id_list = <<>>
    THEN (IF id_entry.t = "Root"
          THEN (IF id_entry.root = "MyComputer" THEN "" ELSE "UnsupportedRootType")
          ELSE "MissingRoot")
    ELSE LET last == id_list[Len(id_list)]
         IN CASE last.t = "Root" ->
                   (IF id_entry.t = "Drive" THEN "" ELSE "MissingDrive")
              [] last.t = "Drive" ->
                   (IF id_entry.t \in {"Folder", "File"} THEN "" ELSE "InvalidAfterDrive")
              [] last.t = "Folder" ->
                   (IF id_entry.t \in {"Folder", "File"} THEN "" ELSE "InvalidAfterFolder")
              [] last.t = "File" -> "AnyAfterFile"

\* variants of the match after the second loop, for the sensitivity of the
\* properties of the ID list: one that accepts every list, one that also
\* rejects a list ending on its Drive
FinalCheckNone(id_list) == ""
FinalCheckStrict(id_list) ==
    IF id_list = <<>> THEN "ListEmpty"
    ELSE IF id_list[Len(id_list)].t \in {"Root", "Drive"} THEN "MissingDrive"
    ELSE ""

\* the match on id_list.last() after the second loop
FinalCheck(id_list) ==
    IF id_list = <<>> THEN "ListEmpty"
    ELSE IF id_list[Len(id_list)].t = "Root" THEN "MissingDrive"
    ELSE ""

\* variant: the entry is pushed without the match on id_list.last()
IdListStepUnchecked(id_list, item, d) ==
    IF IsUwp(item) THEN Er("UwpUnsupported") ELSE
    AndThen(IdEntry_parse(item, d), LAMBDA id_entry :
    Ok(Append(id_list, id_entry.v), 0))

\* one iteration of the second loop: the entry to push, or the error
IdListStep(id_list, item, d) ==
    IF IsUwp(item) THEN Er("UwpUnsupported") ELSE
    AndThen(IdEntry_parse(item, d), LAMBDA id_entry :
    LetIn(Transition(id_list, id_entry.v), LAMBDA t :
    IF t # "" THEN Er(t) ELSE Ok(Append(id_list, id_entry.v), 0)))

----------------------------------------------------------------------------
(* link_info.rs.                                                           *)

\* u32 subtraction a - b for b < BIG: the mathematical difference, or BIG
\* for the wrapped value of a release build (at least 2^32 - b)
WrapSub(a, b) == IF a >= BIG THEN BIG ELSE IF a >= b THEN a - b ELSE BIG
Underflows(a, b) == a < b

DriveType_from_u32(v) ==
    CASE v = 0 -> Some("Unknown")
      [] v = 1 -> Some("NoRootDir")
      [] v = 2 -> Some("Removable")
      [] v = 3 -> Some("Fixed")
      [] v = 4 -> Some("Remote")
      [] v = 5 -> Some("CdRom")
      [] v = 6 -> Some("RamDisk")
      [] OTHER -> None

\* VolumeId::parse on the slice of the data pool that starts at offset p
VolumeId_parse(b, p, bld) ==
    AndThen(read_u32(b, p, Len(b)), LAMBDA size :
    LetIn(Take(size.pos, Len(b), size.v), LAMBDA l :
    AndThen(read_u32(b, size.pos, l), LAMBDA drive_type :
    IF ~DriveType_from_u32(drive_type.v).some THEN Er("InvalidDriveType") ELSE
    AndThen(read_u32_raw(b, drive_type.pos, l), LAMBDA serial_number :
    AndThen(read_u32(b, serial_number.pos, l), LAMBDA label_offset :
    AndThen(IF label_offset.v = 20 THEN read_u32(b, label_offset.pos, l)
            ELSE Ok(0, label_offset.pos), LAMBDA label_unicode_offset :
    \* remaining_data = b[start + 1 .. l]
    LET start == label_unicode_offset.pos
        unicode == label_offset.v = 20
        raw == IF unicode THEN label_unicode_offset.v ELSE label_offset.v
        base == IF unicode THEN 20 ELSE 16
    IN IF Underflows(raw, base) /\ bld = "debug" THEN Pn("label offset - base") ELSE
       \* slicing remaining_data past its end panics
       IF WrapSub(raw, base) > l - start THEN Pn("slice index") ELSE
       AndThen(Wrap("StringReadError",
                    IF unicode THEN read_c_utf16(b, start + WrapSub(raw, base), l)
                    ELSE read_c_utf8(b, start + WrapSub(raw, base), l, FALSE)),
               LAMBDA label :
       Ok([drive_type |-> DriveType_from_u32(drive_type.v).v,
           serial_number |-> serial_number.v,
           label |-> label.v], 0))))))))

VOLUME_ID_AND_LOCAL_BASE_PATH == 0
COMMON_NETWORK_RELATIVE_LINK_AND_PATH_SUFFIX == 1

\* `if flag { Some(read_u32) } else { if read_u32 != 0 { InvalidOffset } }`
ReadOffset(b, p, l, active) ==
    AndThen(read_u32(b, p, l), LAMBDA r :
    IF active THEN Ok(Some(r.v), r.pos)
    ELSE IF r.v # 0 THEN Er("InvalidOffset")
    ELSE Ok(None, r.pos))

\* LinkOffsets::sub on one optional offset
SubOpt(o, value) == IF o.some THEN Some(WrapSub(o.v, value)) ELSE None
SubOptUnderflows(o, value) == o.some /\ Underflows(o.v, value)

\* LinkOffsets::parse; l0 is the limit of the reader of LinkInfo::parse
LinkOffsets_parse(b, p, l0, bld) ==
    AndThen(read_u32(b, p, l0), LAMBDA header_size :
    IF header_size.v < 8 /\ bld = "debug" THEN Pn("header_size - 8") ELSE
    LetIn(Take(header_size.pos, l0, WrapSub(header_size.v, 8)), LAMBDA l :
    AndThen(read_u32(b, header_size.pos, l), LAMBDA link_info_flags :
    IF link_info_flags.v >= 4 THEN Er("InvalidFlags") ELSE
    LetIn(HasBit(link_info_flags.v, VOLUME_ID_AND_LOCAL_BASE_PATH), LAMBDA vol :
    LetIn(HasBit(link_info_flags.v, COMMON_NETWORK_RELATIVE_LINK_AND_PATH_SUFFIX),
          LAMBDA net :
    AndThen(ReadOffset(b, link_info_flags.pos, l, vol), LAMBDA volume_id :
    AndThen(ReadOffset(b, volume_id.pos, l, vol), LAMBDA local_base_path :
    AndThen(ReadOffset(b, local_base_path.pos, l, net),
            LAMBDA common_network_relative_link :
    AndThen(read_u32(b, common_network_relative_link.pos, l), LAMBDA common_path_suffix :
    AndThen(IF header_size.v = 36 THEN ReadOffset(b, common_path_suffix.pos, l, vol)
            ELSE Ok(None, common_path_suffix.pos), LAMBDA local_base_path_unicode :
    AndThen(IF header_size.v = 36
            THEN ReadOffset(b, local_base_path_unicode.pos, l, net)
            ELSE Ok(None, local_base_path_unicode.pos),
            LAMBDA common_path_suffix_unicode :
    IF l - common_path_suffix_unicode.pos > 0 THEN Er("UnreadHeaderData") ELSE
    IF bld = "debug" /\
       (\/ SubOptUnderflows(volume_id.v, header_size.v)
        \/ SubOptUnderflows(local_base_path.v, header_size.v)
        \/ SubOptUnderflows(local_base_path_unicode.v, header_size.v)
        \/ Underflows(common_path_suffix.v, header_size.v)
        \/ SubOptUnderflows(common_path_suffix_unicode.v, header_size.v)
        \/ SubOptUnderflows(common_network_relative_link.v, header_size.v))
    THEN Pn("offset -= header_size")
    ELSE Ok([volume_id |-> SubOpt(volume_id.v, header_size.v),
             local_base_path |-> SubOpt(local_base_path.v, header_size.v),
             local_base_path_unicode |->
                 SubOpt(local_base_path_unicode.v, header_size.v),
             common_path_suffix |-> WrapSub(common_path_suffix.v, header_size.v),
             common_path_suffix_unicode |->
                 SubOpt(common_path_suffix_unicode.v, header_size.v),
             common_network_relative_link |->
                 SubOpt(common_network_relative_link.v, header_size.v)],
            common_path_suffix_unicode.pos))))))))))))

\* variant: a present common_network_relative_link is refused before the
\* volume id and the strings are taken out of remaining_data
LinkInfo_fields_net_first(remaining_data, o, bld) ==
    IF o.common_network_relative_link.some THEN Er("RelativeNetworkLinkUnsupported") ELSE
    LetIn(Len(remaining_data), LAMBDA n :
    IF o.volume_id.some /\ o.volume_id.v > n THEN Pn("slice index") ELSE
    AndThen(IF o.volume_id.some
            THEN Wrap("VolumeIdParseError",
                      VolumeId_parse(remaining_data, o.volume_id.v, bld))
            ELSE Ok(<<>>, 0), LAMBDA volume_id :
    IF o.local_base_path_unicode.some /\ o.local_base_path_unicode.v > n
    THEN Pn("slice index") ELSE
    IF ~o.local_base_path_unicode.some /\ o.local_base_path.some /\ o.local_base_path.v > n
    THEN Pn("slice index") ELSE
    AndThen(IF o.local_base_path_unicode.some
            THEN Wrap("StringReadError",
                      read_c_utf16(remaining_data, o.local_base_path_unicode.v, n))
            ELSE IF o.local_base_path.some
            THEN Wrap("StringReadError",
                      read_c_utf8(remaining_data, o.local_base_path.v, n, FALSE))
            ELSE Ok(<<>>, 0), LAMBDA local_base_path :
    IF o.common_path_suffix_unicode.some /\ o.common_path_suffix_unicode.v > n
    THEN Pn("slice index") ELSE
    IF ~o.common_path_suffix_unicode.some /\ o.common_path_suffix > n
    THEN Pn("slice index") ELSE
    AndThen(IF o.common_path_suffix_unicode.some
            THEN Wrap("StringReadError",
                      read_c_utf16(remaining_data, o.common_path_suffix_unicode.v, n))
            ELSE Wrap("StringReadError",
                      read_c_utf8(remaining_data, o.common_path_suffix, n, FALSE)),
            LAMBDA common_path_suffix :
    Ok([volume_id |-> IF o.volume_id.some THEN Some(volume_id.v) ELSE None,
        local_base_path |-> IF o.local_base_path_unicode.some \/ o.local_base_path.some
                            THEN Some(local_base_path.v) ELSE None,
        common_path_suffix |-> Some(common_path_suffix.v)], 0)))))

\* the strings and the volume id that LinkInfo::parse takes out of
\* remaining_data, the bytes of the LinkInfo behind its header; o is the
\* LinkOffsets
LinkInfo_fields(remaining_data, o, bld) ==
    LetIn(Len(remaining_data), LAMBDA n :
    IF o.volume_id.some /\ o.volume_id.v > n THEN Pn("slice index") ELSE
    AndThen(IF o.volume_id.some
            THEN Wrap("VolumeIdParseError",
                      VolumeId_parse(remaining_data, o.volume_id.v, bld))
            ELSE Ok(<<>>, 0), LAMBDA volume_id :
    IF o.local_base_path_unicode.some /\ o.local_base_path_unicode.v > n
    THEN Pn("slice index") ELSE
    IF ~o.local_base_path_unicode.some /\ o.local_base_path.some /\ o.local_base_path.v > n
    THEN Pn("slice index") ELSE
    AndThen(IF o.local_base_path_unicode.some
            THEN Wrap("StringReadError",
                      read_c_utf16(remaining_data, o.local_base_path_unicode.v, n))
            ELSE IF o.local_base_path.some
            THEN Wrap("StringReadError",
                      read_c_utf8(remaining_data, o.local_base_path.v, n, FALSE))
            ELSE Ok(<<>>, 0), LAMBDA local_base_path :
    IF o.common_path_suffix_unicode.some /\ o.common_path_suffix_unicode.v > n
    THEN Pn("slice index") ELSE
    IF ~o.common_path_suffix_unicode.some /\ o.common_path_suffix > n
    THEN Pn("slice index") ELSE
    AndThen(IF o.common_path_suffix_unicode.some
            THEN Wrap("StringReadError",
                      read_c_utf16(remaining_data, o.common_path_suffix_unicode.v, n))
            ELSE Wrap("StringReadError",
                      read_c_utf8(remaining_data, o.common_path_suffix, n, FALSE)),
            LAMBDA common_path_suffix :
    IF o.common_network_relative_link.some THEN Er("RelativeNetworkLinkUnsupported") ELSE
    Ok([volume_id |-> IF o.volume_id.some THEN Some(volume_id.v) ELSE None,
        local_base_path |-> IF o.local_base_path_unicode.some \/ o.local_base_path.some
                            THEN Some(local_base_path.v) ELSE None,
        common_path_suffix |-> Some(common_path_suffix.v)], 0)))))

\* LinkInfo::parse
LinkInfo_parse(b, p, l0, bld) ==
    AndThen(read_u32(b, p, l0), LAMBDA size :
    IF size.v < 4 /\ bld = "debug" THEN Pn("size - 4") ELSE
    LetIn(Take(size.pos, l0, WrapSub(size.v, 4)), LAMBDA l :
    AndThen(LinkOffsets_parse(b, size.pos, l, bld), LAMBDA offsets :
    AndThen(LinkInfo_fields(SubSeq(b, offsets.pos + 1, l), offsets.v, bld), LAMBDA f :
    Ok(f.v, l)))))

----------------------------------------------------------------------------
(* block_data/*.rs: the per-block decoders.  p is the position after       *)
(* BlockSize and BlockSignature, l the limit of data.take(block_size - 8). *)

\* an io::Error converted through the decoder's own #[from] variant
IoAs(name, r) == IF r.st = "err" /\ r.e = <<"IoError">> THEN Er(name) ELSE r

\* index of the first NUL at or after position i of bs, or Len(bs) + 1
RECURSIVE FirstNul(_, _)
FirstNul(bs, i) ==
    IF i > Len(bs) THEN i
    ELSE IF bs[i] = 0 THEN i
    ELSE FirstNul(bs, i + 1)

\* the length of the maximal ill-formed prefix at bs[i] that
\* String::from_utf8_lossy replaces by one U+FFFD
Utf8BadLen(bs, i) ==
    LET c == bs[i]
        n == Len(bs)
        c1ok == /\ i + 1 <= n /\ IsCont(bs[i + 1])
                /\ (c = 224 => bs[i + 1] >= 160) /\ (c = 237 => bs[i + 1] <= 159)
                /\ (c = 240 => bs[i + 1] >= 144) /\ (c = 244 => bs[i + 1] <= 143)
        c2ok == i + 2 <= n /\ IsCont(bs[i + 2])
    IN IF c < 194 \/ c > 244 THEN 1
       ELSE IF c <= 223 \/ ~c1ok THEN 1
       ELSE IF c <= 239 \/ ~c2ok THEN 2
       ELSE 3

\* String::from_utf8_lossy
RECURSIVE from_utf8_lossy(_, _)
from_utf8_lossy(bs, i) ==
    IF i > Len(bs) THEN <<>>
    ELSE LetIn(Utf8Len(bs, i), LAMBDA k :
         IF k > 0 THEN <<Utf8CodePoint(bs, i, k)>> \o from_utf8_lossy(bs, i + k)
         ELSE <<65533>> \o from_utf8_lossy(bs, i + Utf8BadLen(bs, i)))

SpecialFolderIds ==
    (0..11) \cup {13, 14} \cup (16..49) \cup (53..59) \cup {61}

SpecialFolder_parse(b, p, l) ==
    AndThen(IoAs("Io", read_u32(b, p, l)), LAMBDA id :
    AndThen(IoAs("Io", read_u32_raw(b, id.pos, l)), LAMBDA offset :
    IF id.v \notin SpecialFolderIds THEN Er("UnknownSpecialFolder")
    ELSE Ok([folder |-> id.v, offset |-> offset.v], offset.pos)))

KnownFolderType_from_guid(g) ==
    LET text == Guid_to_string(g)
    IN CASE text = "B4BFCC3A-DB2C-424C-B029-7FE99A87C641" -> Some("Desktop")
         [] text = "FDD39AD0-238F-46AF-ADB4-6C85480369C7" -> Some("Documents")
         [] text = "374DE290-123F-4565-9164-39C4925E467B" -> Some("Downloads")
         [] text = "33E28130-4E1E-4676-835A-98395C3BC3BB" -> Some("Pictures")
         [] text = "4BD8D571-6D19-48D3-BE97-422220080E43" -> Some("Music")
         [] text = "18989B1D-99B5-455B-841C-AB7C74E4DDFC" -> Some("Videos")
         [] text = "3EB685DB-65F9-4CF6-A03A-E3EF65729F3D" -> Some("AppData")
         [] text = "F1B32785-6FBA-4FCF-9D55-7B8E7F157091" -> Some("LocalAppData")
         [] text = "905E63B6-C1BF-494E-B29C-65B732D3D21A" -> Some("ProgramFiles")
         [] text = "7C5A40EF-A0FB-4BFC-874A-C0F2E0B9FA8E" -> Some("ProgramFilesX86")
         [] text = "F38BF404-1D43-42F2-9305-67DE0B28FC23" -> Some("Windows")
         [] text = "C4AA340D-F20F-4863-AFEF-F87EF2E6BA25" -> Some("PublicDesktop")
         [] text = "A4115719-D62E-491D-AA7C-E74B8BE3B067" -> Some("CommonStartMenu")
         [] text = "0139D44E-6AFE-49F2-8690-3DAFCAE6FFB8" -> Some("CommonPrograms")
         [] text = "625B53C3-AB48-4EC1-BA1F-A1EF4146FC19" -> Some("StartMenu")
         [] text = "B97D20BB-F46A-4C97-BA10-5E3608430854" -> Some("Startup")
         [] text = "52A4F021-7B75-48A9-9F6B-4B87A210BC8F" -> Some("QuickLaunch")
         [] text = "A52BBA46-E9E1-435F-B3D9-28DAA648C0F6" -> Some("OneDrive")
         [] text = "5E6C858F-0E22-4760-9AFE-EA3317B67173" -> Some("Profile")
         [] OTHER -> None

KnownFolder_parse(b, p, l) ==
    AndThen(IoAs("Io", read_guid(b, p, l)), LAMBDA guid :
    AndThen(IoAs("Io", read_u32_raw(b, guid.pos, l)), LAMBDA offset :
    LetIn(KnownFolderType_from_guid(guid.v), LAMBDA folder :
    IF ~folder.some THEN Er("UnknownKnownFolder")
    ELSE Ok([folder |-> folder.v, offset |-> offset.v], offset.pos))))

IconEnvironment_parse(b, p, l) ==
    AndThen(IoAs("Io", read_exact(b, p, l, 260)), LAMBDA ansi_buf :
    AndThen(Wrap("StringRead", read_c_utf8(ansi_buf.v, 0, 260, TRUE)), LAMBDA scan :
    AndThen(IoAs("Io", read_exact(b, ansi_buf.pos, l, 520)), LAMBDA uni_buf :
    AndThen(Wrap("StringRead", read_c_utf16(uni_buf.v, 0, 520)), LAMBDA target_unicode :
    Ok([target_ansi |->
            from_utf8_lossy(SubSeq(ansi_buf.v, 1, FirstNul(ansi_buf.v, 1) - 1), 1),
        target_unicode |-> target_unicode.v], uni_buf.pos)))))

\* tracker_data_block.rs.  read_c_utf8 reads from the slice machine_id_raw
\* and so advances it behind the first NUL; position() and the lossy
\* decoding then work on what is left of the slice.
Tracker_parse(b, p, l) ==
    AndThen(IoAs("Io", read_u32(b, p, l)), LAMBDA length :
    IF length.v # 88 THEN Er("InvalidLength") ELSE
    AndThen(IoAs("Io", read_u32(b, length.pos, l)), LAMBDA version :
    IF version.v # 0 THEN Er("InvalidVersion") ELSE
    AndThen(IoAs("Io", read_exact(b, version.pos, l, 16)), LAMBDA buf :
    AndThen(Wrap("StringReadError", read_c_utf8(buf.v, 0, 16, FALSE)), LAMBDA scan :
    LetIn(SubSeq(buf.v, scan.pos + 1, 16), LAMBDA machine_id_raw :
    AndThen(IoAs("Io", read_exact(b, buf.pos, l, 32)), LAMBDA droid :
    AndThen(IoAs("Io", read_exact(b, droid.pos, l, 32)), LAMBDA droid_birth :
    Ok([machine_id |->
            from_utf8_lossy(SubSeq(machine_id_raw, 1, FirstNul(machine_id_raw, 1) - 1), 1),
        droid |-> droid.v,
        droid_birth |-> droid_birth.v], droid_birth.pos))))))))

\* 0xA0000002, least significant byte first
CONSOLE_SIGNATURE == <<2, 0, 0, 160>>

\* the code units of a fixed buffer before its first NUL unit
RECURSIVE UnitsToNul(_, _)
UnitsToNul(units, i) ==
    IF i > Len(units) \/ units[i] = 0 THEN <<>>
    ELSE <<units[i]>> \o UnitsToNul(units, i + 1)

\* console_data_block.rs
Console_parse(b, p, l) ==
    AndThen(IoAs("Io", read_u32(b, p, l)), LAMBDA block_size :
    IF block_size.v # 204 THEN Er("InvalidBlockSize") ELSE
    AndThen(IoAs("Io", read_u32_raw(b, block_size.pos, l)), LAMBDA sig :
    IF sig.v # CONSOLE_SIGNATURE THEN Er("InvalidSignature") ELSE
    \* fill attributes, sizes and origin (8 x 16 bit), Unused1, Unused2,
    \* font size, family and weight (5 x 32 bit)
    AndThen(IoAs("Io", read_exact(b, sig.pos, l, 36)), LAMBDA geometry :
    AndThen(IoAs("Io", read_exact(b, geometry.pos, l, 64)), LAMBDA face_buf :
    LetIn(from_utf16(UnitsToNul(Units(face_buf.v), 1), 1), LAMBDA face_name :
    IF face_name.st # "ok" THEN Er("InvalidFaceName") ELSE
    \* cursor size .. history_no_dup (8 x 32 bit), color table (16 x 32 bit)
    AndThen(IoAs("Io", read_exact(b, face_buf.pos, l, 96)), LAMBDA settings :
    Ok([geometry |-> geometry.v,
        face_name |-> face_name.v,
        settings |-> settings.v], settings.pos)))))))

----------------------------------------------------------------------------
(* property_store.rs.                                                      *)

PropertyStore_default ==
    [unparsed_id_values |-> <<>>,
     unparsed_name_values |-> <<>>,
     item_type_text |-> None,
     app_user_model_id |-> None,
     item_name_display |-> None,
     dual_mode |-> None,
     size |-> None,
     date_modified |-> None,
     date_created |-> None]

\* BTreeMap::insert: the maps are sequences of <<key, value>> pairs without
\* duplicate keys; an existing key keeps its place and gets the new value
RECURSIVE MapInsert(_, _, _)
MapInsert(m, key, value) ==
    IF m = <<>> THEN <<<<key, value>>>>
    ELSE IF m[1][1] = key THEN <<<<key, value>>>> \o Tail(m)
    ELSE <<m[1]>> \o MapInsert(Tail(m), key, value)

MapHas(m, key) == \E i \in 1..Len(m) : m[i][1] = key
MapGet(m, key) == m[CHOOSE i \in 1..Len(m) : m[i][1] = key][2]

\* 0x53505331, least significant byte first
PROPERTY_STORE_VERSION == <<49, 83, 80, 83>>
FMTID_STORAGE == <<5, 213, 205, 213, 156, 46, 27, 16, 147, 151, 8, 0, 43, 44, 249, 174>>

\* parse_typed_property_value with the last arm keeping the whole buffer
\* (no skip(4))
parse_typed_property_value_no_skip(buf) ==
    AndThen(IoAs("Io", read_u16(buf, 0, Len(buf))), LAMBDA property_type :
    AndThen(IoAs("Io", read_u16(buf, 2, Len(buf))), LAMBDA pad :
    IF pad.v # 0 THEN Er("BadTpPadding") ELSE
    Ok([k |-> "Unparsed", tag |-> property_type.v, v |-> buf], 0)))

\* parse_typed_property_value on the bytes of one typed value
parse_typed_property_value(buf) ==
    AndThen(IoAs("Io", read_u16(buf, 0, Len(buf))), LAMBDA property_type :
    AndThen(IoAs("Io", read_u16(buf, 2, Len(buf))), LAMBDA pad :
    IF pad.v # 0 THEN Er("BadTpPadding") ELSE
    CASE property_type.v = 11 ->
           AndThen(IoAs("Io", read_u16(buf, 4, Len(buf))), LAMBDA value :
           AndThen(IoAs("Io", read_u16(buf, 6, Len(buf))), LAMBDA padding :
           Ok([k |-> "Bool", v |-> value.v # 0], 0)))
      [] property_type.v = 31 ->
           AndThen(IoAs("Io", read_u32(buf, 4, Len(buf))), LAMBDA len_chars :
           LetIn(IF len_chars.v >= BIG THEN BIG ELSE len_chars.v * 2, LAMBDA byte_len :
           AndThen(IoAs("Io", read_exact(buf, 8, Len(buf), byte_len)), LAMBDA bytes :
           AndThen(IoAs("Io", read_exact(buf, bytes.pos, Len(buf),
                                         (4 - (byte_len % 4)) % 4)), LAMBDA junk :
           AndThen(Wrap("StringRead", read_c_utf16(bytes.v, 0, byte_len)), LAMBDA str :
           Ok([k |-> "Unicode", v |-> str.v], 0))))))
      [] property_type.v = 64 ->
           AndThen(Wrap("WindowsDateTime", read_windows_datetime(buf, 4, Len(buf))),
                   LAMBDA dt :
           Ok([k |-> "WindowsDateTime", v |-> dt.v], 0))
      [] property_type.v = 21 ->
           AndThen(IoAs("Io", read_exact(buf, 4, Len(buf), 8)), LAMBDA v :
           Ok([k |-> "U64", v |-> v.v], 0))
      [] OTHER ->
           Ok([k |-> "Unparsed", tag |-> property_type.v,
               v |-> SubSeq(buf, 5, Len(buf))], 0)))

APP_USER_MODEL_FMTID == "9F4C2855-9F79-4B39-A8D0-E1D42DE1D5F3"
SYSTEM_BASIC_FMTID == "B725F130-47EF-101A-A5F1-02608C9EEBAC"

\* the `match format_id_string` of an id-keyed entry: the new store or the error
StoreIdValue(store, format_id_string, id, value) ==
    LET typed(field, kind) ==
            IF value.k = kind THEN Ok([store EXCEPT ![field] = Some(value.v)], 0)
            ELSE Er("WrongPropertyType")
        untyped == Ok([store EXCEPT !.unparsed_id_values = MapInsert(@, id, value)], 0)
    IN CASE format_id_string = APP_USER_MODEL_FMTID ->
              (CASE id = 5 -> typed("app_user_model_id", "Unicode")
                 [] id = 11 -> typed("dual_mode", "Bool")
                 [] OTHER -> untyped)
         [] format_id_string = SYSTEM_BASIC_FMTID ->
              (CASE id = 4 -> typed("item_type_text", "Unicode")
                 [] id = 10 -> typed("item_name_display", "Unicode")
                 [] id = 12 -> typed("size", "U64")
                 [] id = 14 -> typed("date_created", "WindowsDateTime")
                 [] id = 15 -> typed("date_modified", "WindowsDateTime")
                 [] OTHER -> untyped)
         [] OTHER -> untyped

\* system_basic_properties.rs: SystemBasicProperties::default and from_raw,
\* the typed record of the entries <<pid, value>> of the basic item properties
SystemBasicProperties_default ==
    [item_type_text |-> None,
     item_name_display |-> None,
     size |-> None,
     date_modified |-> None,
     date_created |-> None]

RECURSIVE FromRawLoop(_, _, _)
FromRawLoop(properties, i, me) ==
    IF i > Len(properties) THEN Ok(me, 0) ELSE
    LetIn(properties[i][1], LAMBDA pid :
    LetIn(properties[i][2], LAMBDA value :
    LetIn(CASE pid = 4 -> <<"item_type_text", "Unicode">>
            [] pid = 10 -> <<"item_name_display", "Unicode">>
            [] pid = 12 -> <<"size", "U64">>
            [] pid = 14 -> <<"date_modified", "WindowsDateTime">>
            [] pid = 15 -> <<"date_created", "WindowsDateTime">>
            [] OTHER -> <<>>, LAMBDA field :
    IF field = <<>> THEN Er("UnknownPropertyId")
    ELSE IF value.k # field[2] THEN Er("WrongPropertyType")
    ELSE FromRawLoop(properties, i + 1, [me EXCEPT ![field[1]] = Some(value.v)]))))

SystemBasicProperties_from_raw(properties) ==
    FromRawLoop(properties, 1, SystemBasicProperties_default)

\* the entry loop of PropertyStore::parse
RECURSIVE PropertyStoreLoop(_, _, _, _, _)
PropertyStoreLoop(b, p, l, store, format_id) ==
    AndThen(IoAs("Io", read_u32(b, p, l)), LAMBDA value_size :
    IF value_size.v = 0 THEN Ok(store, value_size.pos) ELSE
    IF format_id = FMTID_STORAGE
    THEN AndThen(IoAs("Io", read_u32(b, value_size.pos, l)), LAMBDA name_size :
         AndThen(IoAs("Io", read_u8(b, name_size.pos, l)), LAMBDA reserved :
         AndThen(IoAs("Io", read_exact(b, reserved.pos, l, name_size.v)), LAMBDA name_bytes :
         AndThen(Wrap("StringRead", read_c_utf16(name_bytes.v, 0, name_size.v)), LAMBDA name :
         \* header_len = 4 + 4 + 1 + name_size
         AndThen(IoAs("Io", read_exact(b, name_bytes.pos, l,
                                       SatSub(value_size.v, 4 + 4 + 1 + name_size.v))),
                 LAMBDA tv_bytes :
         AndThen(parse_typed_property_value(tv_bytes.v), LAMBDA value :
         PropertyStoreLoop(b, tv_bytes.pos, l,
                           [store EXCEPT !.unparsed_name_values =
                                             MapInsert(@, name.v, value.v)],
                           format_id)))))))
    ELSE AndThen(IoAs("Io", read_u32(b, value_size.pos, l)), LAMBDA id :
         AndThen(IoAs("Io", read_u8(b, id.pos, l)), LAMBDA reserved :
         \* header_len = 4 + 4 + 1
         AndThen(IoAs("Io", read_exact(b, reserved.pos, l,
                                       SatSub(value_size.v, 4 + 4 + 1))), LAMBDA tv_bytes :
         AndThen(parse_typed_property_value(tv_bytes.v), LAMBDA value :
         AndThen(StoreIdValue(store, Guid_to_string(format_id), id.v, value.v),
                 LAMBDA stored :
         PropertyStoreLoop(b, tv_bytes.pos, l, stored.v, format_id)))))))

\* PropertyStore::parse: the store after the block, or the error
PropertyStore_parse(store, b, p, l) ==
    AndThen(IoAs("Io", read_u32(b, p, l)), LAMBDA storage_size :
    AndThen(IoAs("Io", read_u32_raw(b, storage_size.pos, l)), LAMBDA version :
    IF version.v # PROPERTY_STORE_VERSION THEN Er("InvalidVersion") ELSE
    AndThen(IoAs("Io", read_guid(b, version.pos, l)), LAMBDA format_id :
    PropertyStoreLoop(b, format_id.pos, l, store, format_id.v))))

----------------------------------------------------------------------------
(* block_data.rs: BlockData::parse.                                        *)

BlockData_new ==
    [console |-> None,
     tracker |-> None,
     icon_environment |-> None,
     special_folders |-> <<>>,
     known_folders |-> <<>>,
     property_store |-> PropertyStore_default]

\* BlockSignature::from_u32 on the four bytes of the signature
BlockSignature_from_u32(q) ==
    IF q[2] # 0 \/ q[3] # 0 \/ q[4] # 160 THEN None
    ELSE CASE q[1] = 2 -> Some("ConsoleDataBlock")
           [] q[1] = 4 -> Some("ConsoleFEDataBlock")
           [] q[1] = 6 -> Some("DarwinDataBlock")
           [] q[1] = 1 -> Some("EnvironmentVariableDataBlock")
           [] q[1] = 7 -> Some("IconEnvironmentDataBlock")
           [] q[1] = 11 -> Some("KnownFolderDataBlock")
           [] q[1] = 9 -> Some("PropertyStoreDataBlock")
           [] q[1] = 8 -> Some("ShimDataBlock")
           [] q[1] = 5 -> Some("SpecialFolderDataBlock")
           [] q[1] = 3 -> Some("TrackerDataBlock")
           [] q[1] = 12 -> Some("VistaAndAboveIDListDataBlock")
           [] OTHER -> None

\* variant: every block is passed over without a decoder
DispatchSkipping(signature, me, b, p, l) == Ok(me, l)

\* the `match signature`: the decoder's result; its value is the new `me`
Dispatch(signature, me, b, p, l) ==
    CASE signature = "ConsoleDataBlock" ->
           AndThen(Wrap("ConsoleDataBlockError", Console_parse(b, p, l)), LAMBDA r :
           Ok([me EXCEPT !.console = Some(r.v)], r.pos))
      [] signature = "TrackerDataBlock" ->
           AndThen(Wrap("TrackerDataBlockError", Tracker_parse(b, p, l)), LAMBDA r :
           Ok([me EXCEPT !.tracker = Some(r.v)], r.pos))
      [] signature = "PropertyStoreDataBlock" ->
           AndThen(Wrap("PropertyStoreDataBlockError",
                        PropertyStore_parse(me.property_store, b, p, l)), LAMBDA r :
           Ok([me EXCEPT !.property_store = r.v], r.pos))
      [] signature = "IconEnvironmentDataBlock" ->
           AndThen(Wrap("IconEnvironmentDataBlockerror", IconEnvironment_parse(b, p, l)),
                   LAMBDA r :
           Ok([me EXCEPT !.icon_environment = Some(r.v)], r.pos))
      [] signature = "SpecialFolderDataBlock" ->
           AndThen(Wrap("SpecialFolderDataBlockError", SpecialFolder_parse(b, p, l)),
                   LAMBDA r :
           Ok([me EXCEPT !.special_folders = Append(@, r.v)], r.pos))
      [] signature = "KnownFolderDataBlock" ->
           AndThen(Wrap("KnownFolderDataBlockError", KnownFolder_parse(b, p, l)),
                   LAMBDA r :
           Ok([me EXCEPT !.known_folders = Append(@, r.v)], r.pos))
      [] OTHER -> Pn("todo!()")

\* the locals of one iteration of the loop, kept for the properties of
\* the loop: decoder is "" while no decoder has run, used is the number of
\* payload bytes the decoder consumed
NoBlock == [signature |-> "", block_size |-> 0, start |-> 0, lim |-> 0,
            decoder |-> "", used |-> 0]

WithLast(r, last) == [st |-> r.st, e |-> r.e, v |-> r.v, pos |-> r.pos, last |-> last]

\* variant: the leftover of a block is never looked at
UnparsedNone(l, p) == 0

\* block_data.read_to_end(..): the number of payload bytes the decoder left
UnparsedCount(l, p) == l - p

\* the dispatch and the check of the leftover, after BlockSize and
\* BlockSignature; seen are the locals so far
BlockBody(me, b, p, l, seen) ==
    LetIn(Dispatch(seen.signature, me, b, p, l), LAMBDA r :
    LetIn([seen EXCEPT !.lim = l, !.decoder = r.st,
                       !.used = IF r.st = "ok" THEN r.pos - p ELSE 0], LAMBDA ran :
    IF r.st # "ok" THEN WithLast(r, ran) ELSE
    IF UnparsedCount(l, r.pos) > 0 THEN WithLast(Er("UnparsedBlockData"), ran)
    ELSE WithLast(Ok([stop |-> FALSE, me |-> r.v], l), ran)))

\* One iteration of the loop of BlockData::parse.  The value is [stop, me];
\* stop is TRUE for the termination block.
BlockStep(me, b, p, l0, bld) ==
    LetIn(read_u32(b, p, l0), LAMBDA block_size :
    IF block_size.st # "ok" THEN WithLast(block_size, NoBlock) ELSE
    IF block_size.v <= 4
    THEN WithLast(Ok([stop |-> TRUE, me |-> me], block_size.pos),
                  [NoBlock EXCEPT !.block_size = block_size.v]) ELSE
    LetIn(read_u32_raw(b, block_size.pos, l0), LAMBDA raw :
    IF raw.st # "ok" THEN WithLast(raw, [NoBlock EXCEPT !.block_size = block_size.v]) ELSE
    LetIn(BlockSignature_from_u32(raw.v), LAMBDA signature :
    IF ~signature.some
    THEN WithLast(Er("UnknownDataBlockSignature"),
                  [NoBlock EXCEPT !.block_size = block_size.v]) ELSE
    \* block_size as u64 - 8
    IF block_size.v < 8 /\ bld = "debug"
    THEN WithLast(Pn("block_size - 8"),
                  [NoBlock EXCEPT !.block_size = block_size.v,
                                  !.signature = signature.v, !.start = raw.pos])
    ELSE BlockBody(me, b, raw.pos, Take(raw.pos, l0, WrapSub(block_size.v, 8)),
                   [NoBlock EXCEPT !.block_size = block_size.v,
                                   !.signature = signature.v, !.start = raw.pos]))))

----------------------------------------------------------------------------
(* lnk.rs: Lnk::parse as a state machine over the stages of its body.      *)

NoResult == [kind |-> "none", e |-> <<>>]

Lnk_new ==
    [link_flags |-> 0,
     file_flags |-> 0,
     creation_time |-> <<>>,
     access_time |-> <<>>,
     modification_time |-> <<>>,
     file_size_lower_bytes |-> <<>>,
     icon_index |-> <<>>,
     show_command |-> "",
     id_list |-> None,
     link_info |-> None,
     name |-> None,
     relative_path |-> None,
     working_dir |-> None,
     arguments |-> None,
     icon_location |-> None,
     block_data |-> BlockData_new]

IdList_new == [lim |-> 0, at |-> 0, raw_list_items |-> <<>>, next |-> 1, id_list |-> <<>>]
Blk_new == [count |-> 0, last |-> NoBlock]

\* `return Err(..)` / `?` / a panic: r is a failed sub-parser result
Abort(r) ==
    /\ pc' = "done"
    /\ result' = [kind |-> IF r.st = "panic" THEN "Panic" ELSE "Err", e |-> r.e]

\* variant: only the first byte of the magic is compared
SignatureFirstByte(signature) == signature[1] = SIGNATURE[1]

\* `signature != SIGNATURE` and `guid != GUID`, negated
SignatureMatches(signature) == signature = SIGNATURE
GuidMatches(guid) == guid = GUID

ParseSignature ==
    /\ pc = "signature"
    /\ LET r == read_exact(input, pos, Len(input), 4)
       IN IF r.st # "ok" THEN Abort(r) /\ UNCHANGED pos
          ELSE IF ~SignatureMatches(r.v) THEN Abort(Er("InvalidSignature")) /\ UNCHANGED pos
          ELSE pc' = "guid" /\ pos' = r.pos /\ UNCHANGED result
    /\ UNCHANGED <<draft, build, input, lnk, idl, blk>>
    /\ UNCHANGED <<writeVars, callVars, hostVars>>

ParseGuid ==
    /\ pc = "guid"
    /\ LET r == read_exact(input, pos, Len(input), 16)
       IN IF r.st # "ok" THEN Abort(r) /\ UNCHANGED pos
          ELSE IF ~GuidMatches(r.v) THEN Abort(Er("InvalidGuid")) /\ UNCHANGED pos
          ELSE pc' = "link_flags" /\ pos' = r.pos /\ UNCHANGED result
    /\ UNCHANGED <<draft, build, input, lnk, idl, blk>>
    /\ UNCHANGED <<writeVars, callVars, hostVars>>

ParseLinkFlags ==
    /\ pc = "link_flags"
    /\ LET r == read_u32(input, pos, Len(input))
       IN IF r.st # "ok" THEN Abort(r) /\ UNCHANGED <<pos, lnk>>
          ELSE IF ~LinkFlags_from_bits(r.v).some
          THEN Abort(Er("InvalidLinkFlags")) /\ UNCHANGED <<pos, lnk>>
          ELSE /\ pc' = "file_flags"
               /\ pos' = r.pos
               /\ lnk' = [lnk EXCEPT !.link_flags = r.v]
               /\ UNCHANGED result
    /\ UNCHANGED <<draft, build, input, idl, blk>>
    /\ UNCHANGED <<writeVars, callVars, hostVars>>

ParseFileFlags ==
    /\ pc = "file_flags"
    /\ LET r == read_u32(input, pos, Len(input))
       IN IF r.st # "ok" THEN Abort(r) /\ UNCHANGED <<pos, lnk>>
          ELSE IF ~FileAttributeFlags_from_bits(r.v).some
          THEN Abort(Er("InvalidFileFlags")) /\ UNCHANGED <<pos, lnk>>
          ELSE /\ pc' = "times"
               /\ pos' = r.pos
               /\ lnk' = [lnk EXCEPT !.file_flags = r.v]
               /\ UNCHANGED result
    /\ UNCHANGED <<draft, build, input, idl, blk>>
    /\ UNCHANGED <<writeVars, callVars, hostVars>>

\* creation_time, access_time, modification_time, file_size_lower_bytes, icon_index
ParseTimes ==
    /\ pc = "times"
    /\ LET n == Len(input)
           c == Wrap("WindowsDateTimeError", read_windows_datetime(input, pos, n))
           a == Wrap("WindowsDateTimeError", read_windows_datetime(input, pos + 8, n))
           m == Wrap("WindowsDateTimeError", read_windows_datetime(input, pos + 16, n))
           fs == read_u32_raw(input, pos + 24, n)
           ii == read_i32(input, pos + 28, n)
           bad == IF c.st # "ok" THEN c ELSE IF a.st # "ok" THEN a
                  ELSE IF m.st # "ok" THEN m ELSE IF fs.st # "ok" THEN fs ELSE ii
       IN IF bad.st # "ok" THEN Abort(bad) /\ UNCHANGED <<pos, lnk>>
          ELSE /\ pc' = "show_command"
               /\ pos' = ii.pos
               /\ lnk' = [lnk EXCEPT !.creation_time = c.v,
                                     !.access_time = a.v,
                                     !.modification_time = m.v,
                                     !.file_size_lower_bytes = fs.v,
                                     !.icon_index = ii.v]
               /\ UNCHANGED result
    /\ UNCHANGED <<draft, build, input, idl, blk>>
    /\ UNCHANGED <<writeVars, callVars, hostVars>>

ParseShowCommand ==
    /\ pc = "show_command"
    /\ LET r == read_u32(input, pos, Len(input))
       IN IF r.st # "ok" THEN Abort(r) /\ UNCHANGED <<pos, lnk>>
          ELSE IF ~ShowCommand_from_u32(r.v).some
          THEN Abort(Er("InvalidShowCommand")) /\ UNCHANGED <<pos, lnk>>
          ELSE /\ pc' = "reserved"
               /\ pos' = r.pos
               /\ lnk' = [lnk EXCEPT !.show_command = ShowCommand_from_u32(r.v).v]
               /\ UNCHANGED result
    /\ UNCHANGED <<draft, build, input, idl, blk>>
    /\ UNCHANGED <<writeVars, callVars, hostVars>>

\* _hotkey (u16), _reserved1 (u16), _reserved2 (u32), _reserved3 (u32)
ParseReserved ==
    /\ pc = "reserved"
    /\ LET r == read_exact(input, pos, Len(input), 12)
       IN IF r.st # "ok" THEN Abort(r) /\ UNCHANGED pos
          ELSE pc' = "id_list" /\ pos' = r.pos /\ UNCHANGED result
    /\ UNCHANGED <<draft, build, input, lnk, idl, blk>>
    /\ UNCHANGED <<writeVars, callVars, hostVars>>

\* IdList::parse up to the end of its first loop (size, the take, the raw
\* items), or no list at all when HAS_LINK_TARGET_ID_LIST is clear
ParseIdListBegin ==
    /\ pc = "id_list"
    /\ IF ~HasBit(lnk.link_flags, HAS_LINK_TARGET_ID_LIST)
       THEN pc' = "link_info" /\ UNCHANGED <<pos, idl, result>>
       ELSE LET size == read_u16(input, pos, Len(input))
            IN IF size.st # "ok"
               THEN Abort(Wrap("IdListError", size)) /\ UNCHANGED <<pos, idl>>
               ELSE LET l == Take(size.pos, Len(input), size.v)
                        raw == ReadRawItems(input, size.pos, l)
                    IN IF raw.st # "ok"
                       THEN Abort(Wrap("IdListError", raw)) /\ UNCHANGED <<pos, idl>>
                       ELSE /\ pc' = "id_entries"
                            /\ pos' = raw.pos
                            /\ idl' = [lim |-> l, at |-> raw.pos,
                                       raw_list_items |-> raw.v,
                                       next |-> 1, id_list |-> <<>>]
                            /\ UNCHANGED result
    /\ UNCHANGED <<draft, build, input, lnk, blk>>
    /\ UNCHANGED <<writeVars, callVars, hostVars>>

\* one iteration of `for item in raw_list_items.iter()`
ParseIdListItem ==
    /\ pc = "id_entries"
    /\ idl.next <= Len(idl.raw_list_items)
    /\ LET r == IdListStep(idl.id_list, idl.raw_list_items[idl.next], draft)
       IN IF r.st # "ok"
          THEN Abort(Wrap("IdListError", r)) /\ UNCHANGED idl
          ELSE /\ idl' = [idl EXCEPT !.next = @ + 1, !.id_list = r.v]
               /\ UNCHANGED <<pc, result>>
    /\ UNCHANGED <<draft, build, input, pos, lnk, blk>>
    /\ UNCHANGED <<writeVars, callVars, hostVars>>

\* the end of IdList::parse: the match on the last entry, then BytesLeft
ParseIdListEnd ==
    /\ pc = "id_entries"
    /\ idl.next > Len(idl.raw_list_items)
    /\ IF FinalCheck(idl.id_list) # ""
       THEN Abort(Wrap("IdListError", Er(FinalCheck(idl.id_list)))) /\ UNCHANGED <<pos, lnk>>
       ELSE IF idl.lim - idl.at # 0
       THEN Abort(Wrap("IdListError", Er("BytesLeft"))) /\ UNCHANGED <<pos, lnk>>
       ELSE /\ pc' = "link_info"
            /\ pos' = idl.lim
            /\ lnk' = [lnk EXCEPT !.id_list = Some(idl.id_list)]
            /\ UNCHANGED result
    /\ UNCHANGED <<draft, build, input, idl, blk>>
    /\ UNCHANGED <<writeVars, callVars, hostVars>>

\* variant: FORCE_NO_LINK_INFO is not looked at
HasLinkInfoOnly(link_flags) == HasBit(link_flags, HAS_LINK_INFO)

\* link_flags.contains(HAS_LINK_INFO) && !link_flags.contains(FORCE_NO_LINK_INFO)
HasLinkInfo(link_flags) ==
    HasBit(link_flags, HAS_LINK_INFO) /\ ~HasBit(link_flags, FORCE_NO_LINK_INFO)

ParseLinkInfo ==
    /\ pc = "link_info"
    /\ IF ~HasLinkInfo(lnk.link_flags)
       THEN pc' = "strings" /\ UNCHANGED <<pos, lnk, result>>
       ELSE LET r == LinkInfo_parse(input, pos, Len(input), build)
            IN IF r.st # "ok"
               THEN Abort(Wrap("LinkInfoError", r)) /\ UNCHANGED <<pos, lnk>>
               ELSE /\ pc' = "strings"
                    /\ pos' = r.pos
                    /\ lnk' = [lnk EXCEPT !.link_info = Some(r.v)]
                    /\ UNCHANGED result
    /\ UNCHANGED <<draft, build, input, idl, blk>>
    /\ UNCHANGED <<writeVars, callVars, hostVars>>

\* `if link_flags.contains(flag) { Some(read_sized_string(data, utf16)?) } else { None }`
OptString(b, p, l, flags, flag) ==
    IF ~HasBit(flags, flag) THEN Ok(None, p)
    ELSE AndThen(Wrap("StringReadError",
                      read_sized_string(b, p, l, HasBit(flags, IS_UNICODE))), LAMBDA r :
         Ok(Some(r.v), r.pos))

\* name, relative_path, working_dir, arguments, icon_location
StringData(b, p, l, f) ==
    AndThen(OptString(b, p, l, f, HAS_NAME), LAMBDA name :
    AndThen(OptString(b, name.pos, l, f, HAS_RELATIVE_PATH), LAMBDA relative_path :
    AndThen(OptString(b, relative_path.pos, l, f, HAS_WORKING_DIR), LAMBDA working_dir :
    AndThen(OptString(b, working_dir.pos, l, f, HAS_ARGUMENTS), LAMBDA arguments :
    AndThen(OptString(b, arguments.pos, l, f, HAS_ICON_LOCATION), LAMBDA icon_location :
    Ok([name |-> name.v,
        relative_path |-> relative_path.v,
        working_dir |-> working_dir.v,
        arguments |-> arguments.v,
        icon_location |-> icon_location.v], icon_location.pos))))))

ParseStrings ==
    /\ pc = "strings"
    /\ LET r == StringData(input, pos, Len(input), lnk.link_flags)
       IN IF r.st # "ok" THEN Abort(r) /\ UNCHANGED <<pos, lnk>>
          ELSE /\ pc' = "block_data"
               /\ pos' = r.pos
               /\ lnk' = [lnk EXCEPT !.name = r.v.name,
                                     !.relative_path = r.v.relative_path,
                                     !.working_dir = r.v.working_dir,
                                     !.arguments = r.v.arguments,
                                     !.icon_location = r.v.icon_location]
               /\ UNCHANGED result
    /\ UNCHANGED <<draft, build, input, idl, blk>>
    /\ UNCHANGED <<writeVars, callVars, hostVars>>

\* one iteration of the loop of BlockData::parse
ParseBlock ==
    /\ pc = "block_data"
    /\ LET r == BlockStep(lnk.block_data, input, pos, Len(input), build)
       IN /\ blk' = [count |-> blk.count + 1, last |-> r.last]
          /\ IF r.st # "ok"
             THEN Abort(Wrap("BlockDataError", r)) /\ UNCHANGED <<pos, lnk>>
             ELSE /\ pc' = IF r.v.stop THEN "remaining" ELSE "block_data"
                  /\ pos' = r.pos
                  /\ lnk' = [lnk EXCEPT !.block_data = r.v.me]
                  /\ UNCHANGED result
    /\ UNCHANGED <<draft, build, input, idl>>
    /\ UNCHANGED <<writeVars, callVars, hostVars>>

\* variant: what follows the termination block is never looked at
RemainingNone(b, p) == FALSE

\* data.read_to_end(&mut remaining_data)? > 0
RemainingData(b, p) == Len(b) - p > 0

CheckRemaining ==
    /\ pc = "remaining"
    /\ pc' = "done"
    /\ result' = IF RemainingData(input, pos)
                 THEN [kind |-> "Err", e |-> <<"RemainingData">>]
                 ELSE [kind |-> "Ok", e |-> <<>>]
    /\ pos' = Len(input)
    /\ UNCHANGED <<draft, build, input, lnk, idl, blk>>
    /\ UNCHANGED <<writeVars, callVars, hostVars>>

----------------------------------------------------------------------------
(* The inputs: byte strings laid out as the parser reads them.             *)

\* the longest ID list and the longest chain of extension blocks
MaxItems == 4
MaxBlocks == 2

LE16(n) == <<n % 256, n \div 256>>
LE32(n) == <<n % 256, (n \div 256) % 256, (n \div 65536) % 256, n \div 16777216>>
Zeros(n) == [i \in 1..n |-> 0]

RECURSIVE Flatten(_)
Flatten(ss) == IF ss = <<>> THEN <<>> ELSE Head(ss) \o Flatten(Tail(ss))

SeqsUpTo(S, n) == UNION {[1..k -> S] : k \in 0..n}

\* ShellLinkHeader, 76 bytes, as Lnk::parse reads it
Header(link_flags, file_flags, show_command) ==
    SIGNATURE \o GUID \o LE32(link_flags) \o LE32(file_flags)
    \o <<0, 0, 0, 0, 0, 0, 214, 1>> \o Zeros(8) \o <<0, 128, 62, 213, 222, 177, 157, 1>>
    \o LE32(1024) \o LE32(0) \o LE32(show_command) \o Zeros(12)

Terminator == <<0, 0, 0, 0>>

\* the raw items of an ID list, without their length prefix
RootItem(guid) == <<31, 80>> \o guid
MyComputerItem == RootItem(<<224, 79, 208, 32, 234, 58, 105, 16, 162, 216, 8, 0, 43, 48, 48, 157>>)
MyDocumentsItem == RootItem(<<186, 143, 13, 69, 37, 173, 208, 17, 152, 168, 8, 0, 54, 27, 17, 3>>)
DriveItem == <<47, 67, 58, 92>> \o Zeros(19)
\* type, filesize, modified, attributes, short name "a", no extension data
\* a Folder or File item up to its short name "a", and one with eight zero
\* bytes where the extension would start
ShortEntryItem(type_id) == LE16(type_id) \o Zeros(10) \o <<97, 0>>
EntryItem(type_id) == ShortEntryItem(type_id) \o Zeros(8)
\* a File with a version-3 0xbeef0004 extension whose long name is "a"
FileExtraItem ==
    LE16(50) \o Zeros(10) \o <<97, 0>> \o LE16(18) \o LE16(3) \o EXTRA_SIGNATURE
    \o Zeros(10) \o LE16(0) \o <<97, 0, 0, 0>> \o LE16(0)

\* an item with the marker of a UWP application behind four leading bytes
UwpItem(head) == head \o <<65, 80, 80, 83>> \o Zeros(8)

BasicItems == {MyComputerItem, DriveItem, EntryItem(49), EntryItem(50)}
OtherItems == {MyDocumentsItem, RootItem(Zeros(16)), Zeros(4) \o APPS,
               <<255, 255>> \o Zeros(4), FileExtraItem, EntryItem(53),
               ShortEntryItem(50), ShortEntryItem(49) \o Zeros(4),
               UwpItem(<<50, 0, 0, 0>>), UwpItem(<<47, 67, 58, 92>>),
               UwpItem(<<255, 255, 0, 0>>)}

\* IDListSize, the items with their lengths, the terminator, and `extra`
\* bytes counted in IDListSize behind the terminator
IdListBytes(items, extra) ==
    LET body == Flatten([i \in 1..Len(items) |-> LE16(Len(items[i]) + 2) \o items[i]])
    IN LE16(Len(body) + 2 + extra) \o body \o <<0, 0>> \o Zeros(extra)

\* a LinkInfo with a volume id, a local base path and a path suffix; the
\* parameters are the fields that LinkInfo::parse subtracts from
LinkInfoBytes(size, header_size, volume_id_offset, label_offset) ==
    LE32(size) \o LE32(header_size) \o LE32(1) \o LE32(volume_id_offset)
    \o LE32(46) \o LE32(0) \o LE32(51)
    \o LE32(18) \o LE32(3) \o <<1, 2, 3, 4>> \o LE32(label_offset) \o <<97, 0>>
    \o <<67, 58, 92, 97, 0>> \o <<0>>

ValidLinkInfo == LinkInfoBytes(52, 28, 28, 16)

\* the same LinkInfo with the given flags, drive type and offset of the path
\* suffix; with COMMON_NETWORK_RELATIVE_LINK_AND_PATH_SUFFIX the offset of
\* the network link is 52, the end of the structure
NetLinkInfoBytes(link_info_flags, drive_type, common_path_suffix) ==
    LET vol == HasBit(link_info_flags, VOLUME_ID_AND_LOCAL_BASE_PATH)
        net == HasBit(link_info_flags, COMMON_NETWORK_RELATIVE_LINK_AND_PATH_SUFFIX)
    IN LE32(52) \o LE32(28) \o LE32(link_info_flags)
       \o LE32(IF vol THEN 28 ELSE 0) \o LE32(IF vol THEN 46 ELSE 0)
       \o LE32(IF net THEN 52 ELSE 0) \o LE32(common_path_suffix)
       \o LE32(18) \o LE32(drive_type) \o <<1, 2, 3, 4>> \o LE32(16) \o <<97, 0>>
       \o <<67, 58, 92, 97, 0>> \o <<0>>

LinkInfos ==
    {LinkInfoBytes(size, 28, 28, 16) : size \in {0, 3, 52}}
    \cup {LinkInfoBytes(52, hs, 28, 16) : hs \in {4, 7, 28}}
    \cup {LinkInfoBytes(52, 28, off, 16) : off \in {27, 28, 200}}
    \cup {LinkInfoBytes(52, 28, 28, lo) : lo \in {15, 16, 200}}
    \cup {NetLinkInfoBytes(f, dt, so) : f \in 0..3, dt \in {3, 9}, so \in {27, 46, 51, 200}}

\* BlockSize, BlockSignature 0xA00000kk, payload
Block(size, kind, payload) == LE32(size) \o <<kind, 0, 0, 160>> \o payload

SpecialFolderBlock(slack) == Block(16 + slack, 5, LE32(36) \o LE32(0) \o Zeros(slack))
KnownFolderBlock ==
    Block(28, 11, <<58, 204, 191, 180, 44, 219, 76, 66, 176, 41, 127, 233, 154, 135, 198, 65>>
                  \o LE32(0))
TrackerBlock == Block(96, 3, LE32(88) \o LE32(0) \o <<112, 99, 0>> \o Zeros(13) \o Zeros(64))
ConsoleBlock == Block(212, 2, LE32(204) \o CONSOLE_SIGNATURE \o Zeros(196))
IconEnvironmentBlock == Block(788, 7, <<97, 0>> \o Zeros(258) \o <<97, 0>> \o Zeros(518))

Blocks ==
    {SpecialFolderBlock(k) : k \in 0..MaxSlack}
    \cup {KnownFolderBlock, TrackerBlock, ConsoleBlock, IconEnvironmentBlock}
    \cup {Block(8, 6, <<>>), Block(8, 13, <<>>), Block(16, 5, LE32(12) \o LE32(0))}
    \cup {Block(size, 5, LE32(36) \o LE32(0)) : size \in 5..7}
    \cup {Block(8, kind, <<>>) : kind \in {1, 4, 8, 12}}
    \cup {Block(12, 12, Zeros(4)), Block(6, 6, <<>>), Block(5, 13, <<>>),
          LE32(8) \o <<5, 0, 0, 161>>}
    \cup {LE32(size) : size \in 1..4}
    \cup {LE32(4) \o <<5, 0, 0, 160>>, LE32(3) \o <<13, 0, 0, 160>>}

\* name, relative_path, working_dir, arguments, icon_location: "a" each
StringsBytes(link_flags) ==
    LET one == IF HasBit(link_flags, IS_UNICODE) THEN LE16(1) \o <<97, 0>>
               ELSE LE16(1) \o <<97>>
    IN Flatten([k \in 1..5 |-> IF HasBit(link_flags, k + 1) THEN one ELSE <<>>])

Drafts == {"lnk_rs", "src"}
Builds == {"debug", "release"}

Prefixes(b) == {SubSeq(b, 1, n) : n \in 0..Len(b)}
Tails(b) == {b \o Zeros(k) : k \in 0..MaxTail}

\* a file with every section: ID list, LinkInfo, name, icon location, blocks
FullFile ==
    Header(199, 32, 1)
    \o IdListBytes(<<MyComputerItem, DriveItem, EntryItem(49), FileExtraItem>>, 0)
    \o ValidLinkInfo \o StringsBytes(199)
    \o KnownFolderBlock \o SpecialFolderBlock(0) \o Terminator

\* one altered byte among the signature and the class GUID
HeaderFiles ==
    LET bases == Tails(Header(0, 32, 1) \o Terminator)
                 \cup {Header(134217728, 32, 1) \o Terminator,
                       Header(0, 32768, 1) \o Terminator,
                       Header(0, 32, 2) \o Terminator,
                       SubSeq(Header(0, 32, 1), 1, 20),
                       FullFile}
    IN {[b EXCEPT ![i] = (@ + 1) % 256] : b \in bases, i \in 1..20}

FieldFiles ==
    {Header(f, ff, sc) \o Terminator :
        f \in {0, 128, 67108864, 134217728}, ff \in {0, 32, 32768}, sc \in {0, 1, 3, 7, 8}}

TruncatedFiles ==
    Prefixes(FullFile)
    \cup UNION {Prefixes(Header(0, 32, 1) \o SpecialFolderBlock(k) \o Terminator) :
                    k \in 1..MaxSlack}

IdListFiles ==
    {Header(1, 32, 1) \o IdListBytes(items, 0) \o Terminator :
        items \in SeqsUpTo(BasicItems, MaxItems) \cup SeqsUpTo(BasicItems \cup OtherItems, 2)
                  \cup {<<MyComputerItem, DriveItem, item>> : item \in OtherItems}}
    \cup {Header(1, 32, 1) \o IdListBytes(items, 1) \o Terminator :
            items \in SeqsUpTo(BasicItems, 3)}
    \cup {Header(1, 32, 1) \o LE16(4) \o <<1, 0, 0, 0>> \o Terminator}
    \cup Tails(Header(1, 32, 1) \o IdListBytes(<<MyComputerItem, DriveItem>>, 0) \o Terminator)

\* HAS_LINK_INFO with and without FORCE_NO_LINK_INFO
LinkInfoFiles ==
    {Header(f, 32, 1) \o li \o Terminator : f \in {2, 258}, li \in LinkInfos}
    \cup {Header(f, 32, 1) \o Terminator : f \in {2, 256, 258}}

StringFiles ==
    UNION {Tails(Header(4 * k, 32, 1) \o StringsBytes(4 * k) \o Terminator) : k \in 0..63}
    \cup {Header(4 * k, 32, 1) \o Terminator : k \in 1..63}

\* the blocks that the chains of more than one block are made of
ChainBlocks == {SpecialFolderBlock(0), SpecialFolderBlock(1), KnownFolderBlock, TrackerBlock}

BlockFiles ==
    UNION {Tails(Header(0, 32, 1) \o Flatten(bs) \o Terminator) :
               bs \in SeqsUpTo(Blocks, 1) \cup SeqsUpTo(ChainBlocks, MaxBlocks)}

\* typed property values as bytes: VT_LPWSTR "a", VT_BOOL true, VT_UI8 1,
\* VT_FILETIME 0, and a VT_UI4, whose tag has no decoder
TypedValues ==
    {LE16(31) \o LE16(0) \o LE32(2) \o <<97, 0, 0, 0>>,
     LE16(11) \o LE16(0) \o <<255, 255, 0, 0>>,
     LE16(21) \o LE16(0) \o <<1>> \o Zeros(7),
     LE16(64) \o LE16(0) \o Zeros(8),
     LE16(19) \o LE16(0) \o <<1, 2, 3, 4>>}

PropertyIds == {4, 5, 10, 11, 12, 14, 15, 99}

\* one id-keyed entry: ValueSize, Id, Reserved, the typed value
IdEntryBytes(id, tv) == LE32(9 + Len(tv)) \o LE32(id) \o <<0>> \o tv

\* B725F130-47EF-101A-A5F1-02608C9EEBAC and
\* 9F4C2855-9F79-4B39-A8D0-E1D42DE1D5F3 in file order
SystemBasicFormatId ==
    <<48, 241, 37, 183, 239, 71, 26, 16, 165, 241, 2, 96, 140, 158, 235, 172>>
AppUserModelFormatId ==
    <<85, 40, 76, 159, 121, 159, 57, 75, 168, 208, 225, 212, 45, 225, 213, 243>>

\* a serialized property storage with id-keyed entries
StoreBytes(format_id, entries) ==
    LET body == PROPERTY_STORE_VERSION \o format_id \o Flatten(entries) \o LE32(0)
    IN LE32(Len(body) + 4) \o body

\* two format ids without typed fields
FormatIdA == <<1>> \o Zeros(15)
FormatIdB == <<2>> \o Zeros(15)

\* a PropertyStore block of one storage with one id-keyed entry
StoreBlock(format_id, id, tv) ==
    LET storage == StoreBytes(format_id, <<IdEntryBytes(id, tv)>>)
    IN Block(Len(storage) + 8, 9, storage)

StoreBlocks ==
    {StoreBlock(format_id, id, tv) :
        format_id \in {FormatIdA, FormatIdB}, id \in {2, 3},
        tv \in {LE16(21) \o LE16(0) \o <<1>> \o Zeros(7),
                LE16(19) \o LE16(0) \o <<1, 2, 3, 4>>}}

\* one or two PropertyStore blocks
StoreFiles ==
    {Header(0, 32, 1) \o Flatten(bs) \o Terminator : bs \in SeqsUpTo(StoreBlocks, 2)}

\* the inputs with the draft and the build they are given to
Cases ==
    ((HeaderFiles \cup FieldFiles \cup StringFiles) \X {"lnk_rs"} \X {"debug"})
    \cup ((TruncatedFiles \cup Tails(FullFile)) \X Drafts \X Builds)
    \cup (IdListFiles \X Drafts \X {"debug"})
    \cup ({Header(1, 32, 1) \o LE16(4) \o <<1, 0, 0, 0>> \o Terminator} \X Drafts \X Builds)
    \cup ((LinkInfoFiles \cup BlockFiles) \X {"src"} \X Builds)
    \cup (StoreFiles \X {"src"} \X {"debug"})

WriterIdle ==
    /\ wlnk = Lnk_new
    /\ out = <<>>
    /\ wpc = "idle"
    /\ wresult = NoResult

NoCall == [f |-> ""]
NoRet == [st |-> "none", e |-> <<>>, v |-> <<>>, pos |-> 0]

CallIdle ==
    /\ call = NoCall
    /\ ret = NoRet

NoReader == [st |-> "none"]
NoWriter == [st |-> "none"]
NoUi == [step |-> "none"]
NoIo == [k |-> 0, st |-> "ok", e |-> "", op |-> ""]

HostIdle ==
    /\ reader = NoReader
    /\ writer = NoWriter
    /\ io = NoIo
    /\ ui = NoUi

Init ==
    /\ \E c \in Cases : input = c[1] /\ draft = c[2] /\ build = c[3]
    /\ pc = "signature"
    /\ pos = 0
    /\ lnk = Lnk_new
    /\ idl = IdList_new
    /\ blk = Blk_new
    /\ result = NoResult
    /\ WriterIdle
    /\ CallIdle
    /\ HostIdle

Next ==
    \/ ParseSignature
    \/ ParseGuid
    \/ ParseLinkFlags
    \/ ParseFileFlags
    \/ ParseTimes
    \/ ParseShowCommand
    \/ ParseReserved
    \/ ParseIdListBegin
    \/ ParseIdListItem
    \/ ParseIdListEnd
    \/ ParseLinkInfo
    \/ ParseStrings
    \/ ParseBlock
    \/ CheckRemaining

Spec == Init /\ [][Next]_vars

----------------------------------------------------------------------------
(* lnk.rs: Lnk::write, with IdList::write and BlockData::write.            *)

\* quotient (digits, least significant first) and remainder of the digits
\* d[1..i] by 256, with rem carried in from the digits above
RECURSIVE DivFrom(_, _, _)
DivFrom(d, i, rem) ==
    IF i = 0 THEN <<<<>>, rem>>
    ELSE LetIn(DivFrom(d, i - 1, (rem * 10 + d[i]) % 256), LAMBDA r :
         <<Append(r[1], (rem * 10 + d[i]) \div 256), r[2]>>)

\* write_u64: k little-endian bytes of the digits d
RECURSIVE write_u64(_, _)
write_u64(d, k) ==
    IF k = 0 THEN <<>>
    ELSE LetIn(DivFrom(d, Len(d), 0), LAMBDA q : <<q[2]>> \o write_u64(q[1], k - 1))

RECURSIVE DigitsAddFrom(_, _, _, _)
DigitsAddFrom(a, b, i, carry) ==
    IF i > Len(a) THEN <<>>
    ELSE <<(a[i] + b[i] + carry) % 10>>
         \o DigitsAddFrom(a, b, i + 1, (a[i] + b[i] + carry) \div 10)

\* (timestamp + WINDOWS_EPOCH) * 10_000_000
write_windows_datetime(datetime) ==
    write_u64(Zeros(7) \o DigitsAddFrom(datetime, WINDOWS_EPOCH, 1, 0), 8)

\* str::encode_utf16, each unit as two little-endian bytes
RECURSIVE encode_utf16(_)
encode_utf16(string) ==
    IF string = <<>> THEN <<>>
    ELSE (IF Head(string) >= 65536
          THEN LE16(55296 + ((Head(string) - 65536) \div 1024))
               \o LE16(56320 + ((Head(string) - 65536) % 1024))
          ELSE LE16(Head(string)))
         \o encode_utf16(Tail(string))

write_c_utf16(string) == encode_utf16(string) \o <<0, 0>>

\* size is string.chars().count() as u16
write_sized_utf16(string) == LE16(Len(string) % 65536) \o write_c_utf16(string)

\* IdEntry::write: Root stops in RootLocationType::guid, whose
\* Guid::from_str gets the text with its braces and is unwrapped; Folder and
\* File stop in IdEntryData::write, Drive at the end of IdEntry::write
IdEntry_write(entry) ==
    CASE entry.t = "Root" -> Pn("Guid::from_str(text).unwrap()")
      [] entry.t = "Drive" -> Pn("todo!()")
      [] entry.t \in {"Folder", "File"} -> Pn("todo!()")

\* IdList::write: the items into a buffer, then its length and the buffer
IdList_write(id_list) ==
    IF id_list = <<>> THEN Ok(LE16(0), 0) ELSE IdEntry_write(id_list[1])

BlockData_write(block_data) == Pn("todo!()")

\* variant: the link_flags of the caller, as they are
CallerLinkFlags(l) == l.link_flags

\* the link_flags that Lnk::write emits
WriteLinkFlags(l) ==
    LetIn(SetBit(l.link_flags, IS_UNICODE, TRUE), LAMBDA f1 :
    LetIn(SetBit(f1, HAS_LINK_TARGET_ID_LIST, l.id_list.some), LAMBDA f2 :
    LetIn(SetBit(f2, HAS_NAME, l.name.some), LAMBDA f3 :
    LetIn(SetBit(f3, HAS_RELATIVE_PATH, l.relative_path.some), LAMBDA f4 :
    LetIn(SetBit(f4, HAS_WORKING_DIR, l.working_dir.some), LAMBDA f5 :
    LetIn(SetBit(f5, HAS_ARGUMENTS, l.arguments.some), LAMBDA f6 :
    LetIn(SetBit(f6, HAS_ICON_LOCATION, l.icon_location.some), LAMBDA f7 :
    SetBit(f7, HAS_EXP_ICON, l.block_data.icon_environment.some))))))))

\* the header as Lnk::write emits it: four 16-bit zeros follow show_command
WriteHeaderBytes(l) ==
    SIGNATURE \o GUID \o LE32(WriteLinkFlags(l)) \o LE32(l.file_flags)
    \o write_windows_datetime(l.creation_time)
    \o write_windows_datetime(l.access_time)
    \o write_windows_datetime(l.modification_time)
    \o l.file_size_lower_bytes \o l.icon_index
    \o LE32(ShowCommand_to_u32(l.show_command))
    \o LE16(0) \o LE16(0) \o LE16(0) \o LE16(0)

WriteStop(r) ==
    /\ wpc' = "done"
    /\ wresult' = [kind |-> IF r.st = "panic" THEN "Panic" ELSE "Err", e |-> r.e]

WriteHeader ==
    /\ wpc = "header"
    /\ out' = WriteHeaderBytes(wlnk)
    /\ wpc' = "id_list"
    /\ UNCHANGED <<wlnk, wresult>>
    /\ UNCHANGED <<parseVars, callVars, hostVars>>

WriteIdList ==
    /\ wpc = "id_list"
    /\ IF ~wlnk.id_list.some
       THEN wpc' = "link_info" /\ UNCHANGED <<out, wresult>>
       ELSE LET r == IdList_write(wlnk.id_list.v)
            IN IF r.st # "ok" THEN WriteStop(r) /\ UNCHANGED out
               ELSE wpc' = "link_info" /\ out' = out \o r.v /\ UNCHANGED wresult
    /\ UNCHANGED wlnk
    /\ UNCHANGED <<parseVars, callVars, hostVars>>

\* `if let Some(link_info) = &self.link_info`: the values written have none
WriteLinkInfo ==
    /\ wpc = "link_info"
    /\ ~wlnk.link_info.some
    /\ wpc' = "strings"
    /\ UNCHANGED <<wlnk, out, wresult>>
    /\ UNCHANGED <<parseVars, callVars, hostVars>>

WriteOpt(o) == IF o.some THEN write_sized_utf16(o.v) ELSE <<>>

WriteStrings ==
    /\ wpc = "strings"
    /\ out' = out \o WriteOpt(wlnk.name) \o WriteOpt(wlnk.relative_path)
                  \o WriteOpt(wlnk.working_dir) \o WriteOpt(wlnk.arguments)
                  \o WriteOpt(wlnk.icon_location)
    /\ wpc' = "block_data"
    /\ UNCHANGED <<wlnk, wresult>>
    /\ UNCHANGED <<parseVars, callVars, hostVars>>

WriteBlockData ==
    /\ wpc = "block_data"
    /\ LET r == BlockData_write(wlnk.block_data)
       IN IF r.st # "ok" THEN WriteStop(r) /\ UNCHANGED out
          ELSE /\ wpc' = "done"
               /\ wresult' = [kind |-> "Ok", e |-> <<>>]
               /\ out' = out \o r.v
    /\ UNCHANGED wlnk
    /\ UNCHANGED <<parseVars, callVars, hostVars>>

\* the ShellLink values given to Lnk::write
OptStrings == {None, Some(<<97>>)}
WriteValues ==
    {[Lnk_new EXCEPT !.link_flags = f,
                     !.file_flags = 32,
                     !.creation_time = <<5, 0, 3, 0, 5, 8, 4, 8, 5, 1, 0, 0, 0>>,
                     !.access_time = Zeros(13),
                     !.modification_time = <<1>> \o Zeros(12),
                     !.file_size_lower_bytes = <<0, 4, 0, 0>>,
                     !.icon_index = <<0, 0, 0, 0>>,
                     !.show_command = "Normal",
                     !.id_list = ids,
                     !.name = name,
                     !.relative_path = rp,
                     !.working_dir = wd,
                     !.arguments = ar,
                     !.icon_location = il,
                     !.block_data = [BlockData_new EXCEPT !.icon_environment = ie]] :
        f \in {0, 1, 128, 16511, 258, 67108864},
        ids \in {None, Some(<<>>),
                 Some(<<[t |-> "Root", root |-> "MyComputer"],
                        [t |-> "Drive", letter |-> 67]>>),
                 Some(<<[t |-> "Drive", letter |-> 67]>>)},
        name \in OptStrings \cup {Some(<<128512, 97>>)},
        rp \in OptStrings, wd \in OptStrings, ar \in OptStrings, il \in OptStrings,
        ie \in {None, Some([target_ansi |-> <<97>>, target_unicode |-> <<97>>])}}

\* Lnk::parse is not running
ParserIdle ==
    /\ draft = "lnk_rs"
    /\ build = "debug"
    /\ input = <<>>
    /\ pc = "idle"
    /\ pos = 0
    /\ lnk = Lnk_new
    /\ idl = IdList_new
    /\ blk = Blk_new
    /\ result = NoResult

InitWrite ==
    /\ wlnk \in WriteValues
    /\ out = <<>>
    /\ wpc = "header"
    /\ wresult = NoResult
    /\ ParserIdle
    /\ CallIdle
    /\ HostIdle

NextWrite ==
    \/ WriteHeader
    \/ WriteIdList
    \/ WriteLinkInfo
    \/ WriteStrings
    \/ WriteBlockData

SpecWrite == InitWrite /\ [][NextWrite]_vars

----------------------------------------------------------------------------
(* The helpers called on their own, each on arguments from a small set.    *)

\* DOS dates and times: years 1980, 2000, 2004, 2100 and 2107
DosDates ==
    {y * 512 + m * 32 + d : y \in {0, 20, 24, 120, 127},
                            m \in {0, 1, 2, 4, 12, 13, 15},
                            d \in {0, 1, 28, 29, 30, 31}}
DosTimes ==
    {h * 2048 + mi * 32 + sec : h \in {0, 23, 24, 31}, mi \in {0, 59, 60, 63},
                                sec \in {0, 31}}

DosCalls ==
    {[f |-> "read_dos_datetime", b |-> LE16(date) \o LE16(time)] :
        date \in DosDates, time \in DosTimes}

CallReadDosDatetime ==
    /\ call.f = "read_dos_datetime"
    /\ ret = NoRet
    /\ ret' = read_dos_datetime(call.b, 0, Len(call.b))
    /\ UNCHANGED <<call, parseVars, writeVars, hostVars>>

\* FILETIME values around 0, around the ticks of 1970-01-01 (0x019DB1DED53E8000)
\* and around the largest u64
FileTimes ==
    {<<a, b, c, 213, 222, 177, e, f>> :
        a \in {0, 127, 128, 255}, b \in {22, 127, 128}, c \in {62, 215},
        e \in {0, 156, 157, 158, 255}, f \in {0, 1, 2, 255}}
    \cup {Zeros(8), <<1>> \o Zeros(7), <<127, 150, 152>> \o Zeros(5),
          <<128, 150, 152>> \o Zeros(5), [i \in 1..8 |-> 255]}

WindowsCalls == {[f |-> "read_windows_datetime", b |-> t] : t \in FileTimes}

CallReadWindowsDatetime ==
    /\ call.f = "read_windows_datetime"
    /\ ret = NoRet
    /\ ret' = read_windows_datetime(call.b, 0, Len(call.b))
    /\ UNCHANGED <<call, parseVars, writeVars, hostVars>>

StoreEntries == {IdEntryBytes(id, tv) : id \in PropertyIds, tv \in TypedValues}

StoreCalls ==
    {[f |-> "PropertyStore::parse", b |-> StoreBytes(fmt, es)] :
        fmt \in {SystemBasicFormatId, AppUserModelFormatId, Zeros(16)},
        es \in SeqsUpTo(StoreEntries, 1)
               \cup {<<IdEntryBytes(4, tv), IdEntryBytes(id, tv)>> :
                        id \in PropertyIds, tv \in TypedValues}}

\* the values that parse_typed_property_value gives for TypedValues, the
\* boolean apart (no property of the basic item properties is one)
PropValues ==
    {parse_typed_property_value(tv).v :
        tv \in {t \in TypedValues : parse_typed_property_value(t).v.k # "Bool"}}

FromRawCalls ==
    {[f |-> "SystemBasicProperties::from_raw", properties |-> ps] :
        ps \in SeqsUpTo(PropertyIds \X PropValues, 1)
               \cup {<<<<4, [k |-> "Unicode", v |-> <<97>>]>>, <<id, v>>>> :
                        id \in PropertyIds, v \in PropValues}}

\* buffers for parse_typed_property_value: a PropertyType, the padding and
\* up to three value bytes, the well-formed values, and buffers too short
\* for the header
PropertyTypes == {0, 11, 19, 21, 31, 64, 267, 65535}

TypedBuffers ==
    {LE16(tag) \o pad \o body :
        tag \in PropertyTypes, pad \in {LE16(0), LE16(1), <<0, 1>>},
        body \in SeqsUpTo({0, 255}, 3)}
    \cup TypedValues
    \cup {SubSeq(LE16(19) \o LE16(0), 1, n) : n \in 0..3}

TypedCalls == {[f |-> "parse_typed_property_value", b |-> buf] : buf \in TypedBuffers}

CallParseTypedPropertyValue ==
    /\ call.f = "parse_typed_property_value"
    /\ ret = NoRet
    /\ ret' = parse_typed_property_value(call.b)
    /\ UNCHANGED <<call, parseVars, writeVars, hostVars>>

CallPropertyStoreParse ==
    /\ call.f = "PropertyStore::parse"
    /\ ret = NoRet
    /\ ret' = PropertyStore_parse(PropertyStore_default, call.b, 0, Len(call.b))
    /\ UNCHANGED <<call, parseVars, writeVars, hostVars>>

CallFromRaw ==
    /\ call.f = "SystemBasicProperties::from_raw"
    /\ ret = NoRet
    /\ ret' = SystemBasicProperties_from_raw(call.properties)
    /\ UNCHANGED <<call, parseVars, writeVars, hostVars>>

\* buffers for read_c_utf8: up to five bytes of NUL, "a" and a byte that is
\* no UTF-8
CStringCalls ==
    {[f |-> "read_c_utf8", b |-> buf, padding |-> padding] :
        buf \in SeqsUpTo({0, 97, 255}, 5), padding \in BOOLEAN}

CallReadCUtf8 ==
    /\ call.f = "read_c_utf8"
    /\ ret = NoRet
    /\ ret' = read_c_utf8(call.b, 0, Len(call.b), call.padding)
    /\ UNCHANGED <<call, parseVars, writeVars, hostVars>>

\* timestamps for write_dos_datetime: calendar dates of 1980..2107 with
\* whole seconds
DateTimes ==
    {<<y, m, d, h, mi, sec>> : y \in {1980, 2000, 2024, 2107}, m \in {1, 2, 11, 12},
                               d \in {1, 15, 16, 28, 29, 30, 31}, h \in {0, 15, 16, 23},
                               mi \in {0, 1, 31, 32, 59},
                               sec \in {0, 1, 2, 30, 31, 32, 58, 59}}

DosWriteCalls ==
    {[f |-> "write_dos_datetime", datetime |-> t] :
        t \in {t \in DateTimes : from_ymd_opt(t[1], t[2], t[3])}}

CallWriteDosDatetime ==
    /\ call.f = "write_dos_datetime"
    /\ ret = NoRet
    /\ ret' = Ok(write_dos_datetime(call.datetime), 0)
    /\ UNCHANGED <<call, parseVars, writeVars, hostVars>>

\* payloads of a tracker block: Length, Version, the 16 bytes of MachineID
\* and the four GUIDs
MachineIds ==
    {<<112, 99, 0>> \o Zeros(13), <<112, 99, 0, 120, 0>> \o Zeros(11), Zeros(16),
     <<112>> \o Zeros(15), [i \in 1..16 |-> 97], [i \in 1..15 |-> 97] \o <<0>>,
     <<255, 0>> \o Zeros(14), <<112, 0, 255, 0>> \o Zeros(12)}

TrackerCalls ==
    {[f |-> "TrackerDataBlock::parse",
      b |-> LE32(length) \o LE32(version) \o machine_id \o Zeros(tail)] :
        length \in {0, 87, 88, 96}, version \in {0, 1}, machine_id \in MachineIds,
        tail \in {63, 64}}

CallTrackerParse ==
    /\ call.f = "TrackerDataBlock::parse"
    /\ ret = NoRet
    /\ ret' = Tracker_parse(call.b, 0, Len(call.b))
    /\ UNCHANGED <<call, parseVars, writeVars, hostVars>>

Calls == TrackerCalls \cup DosWriteCalls \cup CStringCalls \cup DosCalls \cup WindowsCalls \cup StoreCalls \cup FromRawCalls \cup TypedCalls

InitCall ==
    /\ call \in Calls
    /\ ret = NoRet
    /\ ParserIdle
    /\ WriterIdle
    /\ HostIdle

NextCall ==
    \/ CallTrackerParse
    \/ CallWriteDosDatetime
    \/ CallReadCUtf8
    \/ CallReadDosDatetime
    \/ CallReadWindowsDatetime
    \/ CallPropertyStoreParse
    \/ CallFromRaw
    \/ CallParseTypedPropertyValue

SpecCall == InitCall /\ [][NextCall]_vars

----------------------------------------------------------------------------
(* Properties of Lnk::parse and IdList::parse.                             *)

ErrIs(path) == result = [kind |-> "Err", e |-> path]

\* C1: Lnk::parse returns Ok only from its last statement and only when no
\* byte follows the termination block; when a byte follows, the result is
\* the RemainingData error and nothing else.
C1_ConsumesAll ==
    [][/\ (result'.kind = "Ok" /\ result.kind # "Ok")
            => (pc = "remaining" /\ Len(input) - pos = 0)
       /\ (pc = "remaining" /\ Len(input) - pos > 0)
            => (result' = [kind |-> "Err", e |-> <<"RemainingData">>] /\ pc' = "done")]_vars

\* C1, the case: a chain of two blocks and its terminator were read, and a
\* byte was left
C1_Witness ==
    /\ pc = "done"
    /\ ErrIs(<<"RemainingData">>)
    /\ blk.count = 3
    /\ lnk.block_data.known_folders # <<>>

\* the grammar of a decoded ID list
IsGrammatical(id_list) ==
    /\ Len(id_list) >= 2
    /\ id_list[1].t = "Root" /\ id_list[1].root = "MyComputer"
    /\ id_list[2].t = "Drive"
    /\ \A i \in 3..Len(id_list) : id_list[i].t \in {"Folder", "File"}
    /\ \A i \in 1..Len(id_list) - 1 : id_list[i].t # "File"

\* C3: whenever IdList::parse returns Ok, the list is Root(MyComputer), a
\* Drive, then Folder or File entries only, with a File only at the end.
C3_GrammarOnOk == lnk.id_list.some => IsGrammatical(lnk.id_list.v)

\* C3, the case: a list of four entries ending on a File was returned
C3_Witness ==
    /\ lnk.id_list.some
    /\ Len(lnk.id_list.v) = 4
    /\ lnk.id_list.v[3].t = "Folder"
    /\ lnk.id_list.v[4].t = "File"

\* the kind of a raw item of the inputs, by its bytes
WireKind(item) ==
    CASE item = MyComputerItem -> "MyComputer"
      [] item = MyDocumentsItem -> "OtherRoot"
      [] item = DriveItem -> "Drive"
      [] item = EntryItem(49) -> "Folder"
      [] item = EntryItem(50) -> "File"
      [] OTHER -> "?"

\* the error that the edges of the state machine give for the kinds from
\* position i on, after an entry of kind last ("" before the first); "" when
\* the list parses
RECURSIVE EdgeError(_, _, _)
EdgeError(kinds, i, last) ==
    IF i > Len(kinds)
    THEN (CASE last = "" -> "ListEmpty"
            [] last = "MyComputer" -> "MissingDrive"
            [] OTHER -> "")
    ELSE LET k == kinds[i]
             e == CASE last = "" ->
                         (IF k = "MyComputer" THEN ""
                          ELSE IF k = "OtherRoot" THEN "UnsupportedRootType"
                          ELSE "MissingRoot")
                    [] last = "MyComputer" -> (IF k = "Drive" THEN "" ELSE "MissingDrive")
                    [] last = "Drive" ->
                         (IF k \in {"Folder", "File"} THEN "" ELSE "InvalidAfterDrive")
                    [] last = "Folder" ->
                         (IF k \in {"Folder", "File"} THEN "" ELSE "InvalidAfterFolder")
                    [] OTHER -> "AnyAfterFile"
         IN IF e # "" THEN e ELSE EdgeError(kinds, i + 1, k)

\* the raw items were read, are all of a known kind, and fill the list
KnownItemsRead ==
    /\ pc \in {"link_info", "done"}
    /\ idl.lim > 0
    /\ idl.at = idl.lim
    /\ \A i \in 1..Len(idl.raw_list_items) : WireKind(idl.raw_list_items[i]) # "?"

\* C4: every violated edge of the ID-list state machine gives its own error
\* kind, and a list that violates none parses; so Root(MyComputer), Drive,
\* Folder, File parses, File before Folder gives AnyAfterFile and a lone
\* Drive gives MissingRoot.
C4_EdgeErrors ==
    KnownItemsRead =>
        LET e == EdgeError([i \in 1..Len(idl.raw_list_items) |->
                               WireKind(idl.raw_list_items[i])], 1, "")
        IN IF e = "" THEN lnk.id_list.some
           ELSE ErrIs(<<"IdListError", e>>)

\* C5 as it is stated: a list of only Root(MyComputer) and a Drive is never
\* returned.
C5_PrefixRejected ==
    ~(lnk.id_list.some /\ Len(lnk.id_list.v) = 2)

\* C5, as the code has it: when the decoded entries are exactly
\* Root(MyComputer) and a Drive and no byte of the list is left, the list
\* is returned; the check at the end of the list rejects only an empty list
\* and a list that ends on the bare Root.
C5_PrefixAccepted ==
    [][(/\ pc = "id_entries"
        /\ idl.next > Len(idl.raw_list_items)
        /\ idl.lim - idl.at = 0
        /\ Len(idl.id_list) = 2
        /\ idl.id_list[1].t = "Root" /\ idl.id_list[2].t = "Drive")
          => (/\ pc' = "link_info"
              /\ lnk'.id_list = Some(idl.id_list)
              /\ result' = result)]_vars

\* C5, the case: the list of Root(MyComputer) and Drive was returned and the
\* parse went on to Ok
C5_Witness ==
    /\ result.kind = "Ok"
    /\ lnk.id_list.some
    /\ Len(lnk.id_list.v) = 2
    /\ lnk.id_list.v[2].t = "Drive"

\* C6: for an input of at least 20 bytes, an altered byte of the magic gives
\* InvalidSignature, and with the magic intact an altered byte of the class
\* GUID gives InvalidGuid, whatever follows.
C6_HeaderRejection ==
    (pc = "done" /\ Len(input) >= 20) =>
        /\ SubSeq(input, 1, 4) # <<76, 0, 0, 0>> => ErrIs(<<"InvalidSignature">>)
        /\ (/\ SubSeq(input, 1, 4) = <<76, 0, 0, 0>>
            /\ SubSeq(input, 5, 20)
                 # <<1, 20, 2, 0, 0, 0, 0, 0, 192, 0, 0, 0, 0, 0, 0, 70>>)
             => ErrIs(<<"InvalidGuid">>)

\* C6, the case: a complete file with its second byte altered was rejected
C6_Witness ==
    /\ pc = "done"
    /\ Len(input) > 76
    /\ input[1] = 76 /\ input[2] # 0
    /\ ErrIs(<<"InvalidSignature">>)

\* C7: Lnk::parse returns Ok or Err for every input; it never panics.
C7_NoPanic == result.kind # "Panic"

\* C8: in a ShellLink that Lnk::parse returns, each optional field is
\* present exactly when its flag bits say so.
C8_PresenceIsFlags ==
    result.kind = "Ok" =>
        /\ lnk.id_list.some <=> HasBit(lnk.link_flags, 0)
        /\ lnk.link_info.some
             <=> (HasBit(lnk.link_flags, 1) /\ ~HasBit(lnk.link_flags, 8))
        /\ lnk.name.some <=> HasBit(lnk.link_flags, 2)
        /\ lnk.relative_path.some <=> HasBit(lnk.link_flags, 3)
        /\ lnk.working_dir.some <=> HasBit(lnk.link_flags, 4)
        /\ lnk.arguments.some <=> HasBit(lnk.link_flags, 5)
        /\ lnk.icon_location.some <=> HasBit(lnk.link_flags, 6)

\* C8, the case: a file with an ID list, a LinkInfo, a name and an icon
\* location, and without the other three strings, was returned
C8_Witness ==
    /\ result.kind = "Ok"
    /\ lnk.id_list.some /\ lnk.link_info.some
    /\ lnk.name.some /\ lnk.icon_location.some
    /\ ~lnk.relative_path.some /\ ~lnk.working_dir.some /\ ~lnk.arguments.some

\* the block whose decoder ran last returned successfully, and fewer payload
\* bytes than block_size - 8 were consumed
DecoderLeftDeclared ==
    /\ blk.last.decoder = "ok"
    /\ blk.last.used < blk.last.block_size - 8

\* the same, with a byte of the payload left in the input
DecoderLeftBytes ==
    /\ blk.last.decoder = "ok"
    /\ blk.last.used < blk.last.lim - blk.last.start

UnparsedBlockDataReturned ==
    /\ pc = "done"
    /\ ErrIs(<<"BlockDataError", "UnparsedBlockData">>)

\* C10 as it is stated: a decoder that returns successfully after consuming
\* fewer than block_size - 8 bytes makes BlockData::parse fail with
\* UnparsedBlockData, and no further block is read.
C10_LeftoverDeclared == DecoderLeftDeclared => UnparsedBlockDataReturned

\* C10, as the code has it: a decoder that returns successfully and leaves at
\* least one byte of the declared payload that is present in the input makes
\* BlockData::parse fail with UnparsedBlockData, and no further block is
\* read.
C10_LeftoverPresent == DecoderLeftBytes => UnparsedBlockDataReturned

\* C10, the case: the second block of a chain had a byte more than its
\* decoder read
C10_Witness ==
    /\ DecoderLeftBytes
    /\ blk.count = 2
    /\ blk.last.signature = "SpecialFolderDataBlock"
    /\ blk.last.lim - blk.last.start - blk.last.used = 1
    /\ UnparsedBlockDataReturned

----------------------------------------------------------------------------
(* Properties of Lnk::write.                                               *)

\* C2: for a ShellLink with an ID list, Lnk::write completes and the parse
\* of its bytes gives the ShellLink back, field for field.
C2_RoundTrip ==
    (wpc = "done" /\ wlnk.id_list.some) =>
        /\ wresult.kind = "Ok"
        /\ result.kind = "Ok"
        /\ lnk = wlnk

\* the link_flags word of a written header
EmittedFlags(bytes) ==
    bytes[21] + 256 * bytes[22] + 65536 * bytes[23] + 16777216 * bytes[24]

DerivedBits == {0, 2, 3, 4, 5, 6, 14}

\* C9: the link_flags that Lnk::write emits have IS_UNICODE set, each
\* presence bit set exactly when its field is populated, and every other bit
\* as the caller gave it; the ShellLink is left as it was.
C9_FlagsDerived ==
    [][/\ wlnk' = wlnk
       /\ wpc = "header" =>
            LET f == EmittedFlags(out')
            IN /\ HasBit(f, 7)
               /\ HasBit(f, 0) <=> wlnk.id_list.some
               /\ HasBit(f, 2) <=> wlnk.name.some
               /\ HasBit(f, 3) <=> wlnk.relative_path.some
               /\ HasBit(f, 4) <=> wlnk.working_dir.some
               /\ HasBit(f, 5) <=> wlnk.arguments.some
               /\ HasBit(f, 6) <=> wlnk.icon_location.some
               /\ HasBit(f, 14) <=> wlnk.block_data.icon_environment.some
               /\ \A k \in (0..26) \ (DerivedBits \cup {7}) :
                      HasBit(f, k) <=> HasBit(wlnk.link_flags, k)]_vars

\* C9, the case: the caller had every presence bit set and IS_UNICODE clear,
\* no field but the name was populated, and the header was written
C9_Witness ==
    /\ wpc # "header"
    /\ wlnk.link_flags = 16511
    /\ wlnk.name.some
    /\ ~wlnk.id_list.some /\ ~wlnk.relative_path.some /\ ~wlnk.working_dir.some
    /\ ~wlnk.arguments.some /\ ~wlnk.icon_location.some
    /\ ~wlnk.block_data.icon_environment.some
    /\ EmittedFlags(out) = 128 + 4 + 2

----------------------------------------------------------------------------
(* Further properties of the parser and the writer.                        *)

\* the file with only an ID list: My Computer, a drive, one file
OnlyIdListFile ==
    Header(1, 32, 1) \o IdListBytes(<<MyComputerItem, DriveItem, EntryItem(50)>>, 0)
    \o Terminator

\* C11: a valid header with only HAS_LINK_TARGET_ID_LIST, an ID list of the
\* My Computer root, a drive and one file, and the terminal block parse to a
\* ShellLink with three entries ending in a File, without link_info, strings
\* or extension blocks.
C11_EndToEnd ==
    (input = OnlyIdListFile /\ pc = "done") =>
        /\ result.kind = "Ok"
        /\ lnk.id_list.some
        /\ Len(lnk.id_list.v) = 3
        /\ lnk.id_list.v[3].t = "File"
        /\ ~lnk.link_info.some
        /\ ~lnk.name.some /\ ~lnk.relative_path.some /\ ~lnk.working_dir.some
        /\ ~lnk.arguments.some /\ ~lnk.icon_location.some
        /\ lnk.block_data = BlockData_new

\* the fields of the DOS date and time of a call of read_dos_datetime
DosField(k) ==
    LET date == call.b[1] + 256 * call.b[2]
        time == call.b[3] + 256 * call.b[4]
    IN CASE k = "year" -> date \div 512
         [] k = "month" -> (date \div 32) % 16
         [] k = "day" -> date % 32
         [] k = "hour" -> time \div 2048
         [] k = "minute" -> (time \div 32) % 64
         [] k = "second" -> time % 32

\* the days of a month of the Gregorian calendar
CalendarDays(y, m) ==
    CASE m \in {1, 3, 5, 7, 8, 10, 12} -> 31
      [] m \in {4, 6, 9, 11} -> 30
      [] m = 2 -> IF y % 4 = 0 /\ (y % 100 # 0 \/ y % 400 = 0) THEN 29 ELSE 28
      [] OTHER -> 0

DosReturned == call.f = "read_dos_datetime" /\ ret # NoRet

RECURSIVE LeLess(_, _, _)
LeLess(a, b, i) ==
    IF i = 0 THEN FALSE
    ELSE IF a[i] # b[i] THEN a[i] < b[i]
    ELSE LeLess(a, b, i - 1)

\* 11,644,473,600 * 10,000,000 ticks
EpochTicks == <<0, 128, 62, 213, 222, 177, 157, 1>>

WindowsReturned == call.f = "read_windows_datetime" /\ ret # NoRet

\* C13: a tick count whose whole seconds are below 11,644,473,600 is returned
\* as 1970-01-01T00:00:00, without an error and without an underflow.
C13_SaturatesBelowEpoch ==
    (WindowsReturned /\ LeLess(call.b, EpochTicks, 8)) =>
        /\ ret.st = "ok"
        /\ ret.v = Zeros(13)

\* C13, the case: the tick count one below that of 1970-01-01 was read
C13_Witness ==
    /\ WindowsReturned
    /\ call.b = <<255, 127, 62, 213, 222, 177, 157, 1>>
    /\ ret.st = "ok"
    /\ ret.v = Zeros(13)

\* the property ids of the basic item properties that have a typed field
BasicPropertyIds == {4, 10, 12, 14, 15}

\* the first entry of the list that from_raw cannot place has an id without a field
FirstUnplacedIsUnknown(properties) ==
    \E i \in 1..Len(properties) :
        /\ properties[i][1] \notin BasicPropertyIds
        /\ \A j \in 1..(i - 1) :
              SystemBasicProperties_from_raw(<<properties[j]>>).st = "ok"

\* C14: when the id-keyed entries of the basic item properties are turned
\* into the typed fields, an entry whose property id is none of 4, 10, 12, 14
\* and 15 fails the decode with UnknownPropertyId; it is not kept in the
\* untyped map.  Stated of SystemBasicProperties::from_raw and of
\* PropertyStore::parse on a storage with that format id.
C14_UnknownIdFails ==
    /\ (call.f = "SystemBasicProperties::from_raw" /\ ret # NoRet
         /\ FirstUnplacedIsUnknown(call.properties))
        => (ret.st = "err" /\ ret.e = <<"UnknownPropertyId">>)
    /\ \A id \in PropertyIds \ BasicPropertyIds, tv \in TypedValues :
         (/\ call.f = "PropertyStore::parse"
          /\ call.b = StoreBytes(SystemBasicFormatId, <<IdEntryBytes(id, tv)>>)
          /\ ret # NoRet)
         => (ret.st = "err" /\ ret.e = <<"UnknownPropertyId">>)

\* from_raw alone: the same, and no entry is dropped when it returns a record
C14_FromRawUnknownIdFails ==
    (call.f = "SystemBasicProperties::from_raw" /\ ret # NoRet)
    => /\ FirstUnplacedIsUnknown(call.properties)
          => (ret.st = "err" /\ ret.e = <<"UnknownPropertyId">>)
       /\ ret.st = "ok"
          => \A i \in 1..Len(call.properties) :
                call.properties[i][1] \in BasicPropertyIds

\* the PropertyType values that parse_typed_property_value decodes
DecodedPropertyTypes == {11, 31, 64, 21}

\* the PropertyType of the call's buffer
CallPropertyType == call.b[1] + 256 * call.b[2]

\* the buffer has the 4-byte header, zero padding and a type without decoder
UndecodedTypeCall ==
    /\ call.f = "parse_typed_property_value"
    /\ Len(call.b) >= 4
    /\ call.b[3] = 0 /\ call.b[4] = 0
    /\ CallPropertyType \notin DecodedPropertyTypes

\* C15: for a PropertyType other than 0x000B, 0x001F, 0x0040 and 0x0015 with
\* zero padding, parse_typed_property_value returns Unparsed(type, bytes)
\* where bytes are the buffer after its 4-byte header: the type, two zero
\* bytes and the bytes put together are the buffer again.
C15_UnparsedRoundTrip ==
    (UndecodedTypeCall /\ ret # NoRet)
    => /\ ret.st = "ok"
       /\ ret.v.k = "Unparsed"
       /\ ret.v.tag = CallPropertyType
       /\ ret.v.v = SubSeq(call.b, 5, Len(call.b))
       /\ LE16(ret.v.tag) \o <<0, 0>> \o ret.v.v = call.b

C15_Witness ==
    /\ UndecodedTypeCall
    /\ Len(call.b) > 4
    /\ ret.st = "ok"
    /\ ret.v.k = "Unparsed"

\* the signatures of BlockSignature::from_u32 as they are in the file, and
\* those among them whose arm of the match is todo!()
KnownSignatureBytes == {<<k, 0, 0, 160>> : k \in (1..9) \cup {11, 12}}
UndecodedSignatureBytes == {<<k, 0, 0, 160>> : k \in {4, 6, 1, 8, 12}}

\* BlockSize and the four bytes after it, where the next iteration starts
NextBlockSize == read_u32(input, pos, Len(input))
NextSignatureBytes == SubSeq(input, pos + 5, pos + 8)

BlockSizeRead == pc = "block_data" /\ NextBlockSize.st = "ok"
SignatureRead == BlockSizeRead /\ NextBlockSize.v > 4 /\ Len(input) - pos >= 8

\* C16: an iteration of BlockData::parse passes over no block.  At a
\* BlockSize of at most 4 the loop ends with only the size consumed; the
\* extension blocks are unchanged.  At a larger BlockSize, a signature that
\* is none of the eleven constants gives UnknownDataBlockSignature, one of
\* the five without decoder ends the parse without Ok, and the loop goes on
\* to a further block only after one of the six decoders ran and returned
\* successfully.
C16_NeverSkips ==
    [][/\ (BlockSizeRead /\ NextBlockSize.v <= 4)
          => /\ pc' = "remaining"
             /\ pos' = pos + 4
             /\ lnk' = lnk
       /\ (SignatureRead /\ NextSignatureBytes \notin KnownSignatureBytes)
          => /\ pc' = "done"
             /\ result' = [kind |-> "Err",
                           e |-> <<"BlockDataError", "UnknownDataBlockSignature">>]
       /\ (SignatureRead /\ NextSignatureBytes \in UndecodedSignatureBytes)
          => /\ pc' = "done"
             /\ result'.kind \notin {"Ok", "none"}
       /\ (pc = "block_data" /\ pc' = "block_data")
          => /\ SignatureRead
             /\ NextSignatureBytes \in KnownSignatureBytes \ UndecodedSignatureBytes
             /\ blk'.last.decoder = "ok"
             /\ pos' > pos + 8]_vars

\* C16, the case: a first block of 12 bytes with the signature of the
\* VistaAndAboveIDList block ended the parse without Ok
C16_Witness ==
    /\ pc = "done"
    /\ blk.count = 1
    /\ blk.last.signature = "VistaAndAboveIDListDataBlock"
    /\ blk.last.block_size = 12
    /\ result.kind = "Panic"

\* IdList::parse got to its second loop and has returned or gone on
ItemsLoopLeft ==
    /\ pc \in {"link_info", "done"}
    /\ idl.lim > 0

\* item i is the first raw item that IdEntry::parse rejects, and no item up
\* to it has the UWP marker
FirstUndecodable(i) ==
    /\ i \in 1..Len(idl.raw_list_items)
    /\ IdEntry_parse(idl.raw_list_items[i], draft).st = "err"
    /\ \A j \in 1..i : ~IsUwp(idl.raw_list_items[j])
    /\ \A j \in 1..(i - 1) : IdEntry_parse(idl.raw_list_items[j], draft).st = "ok"

\* the error of the first violated edge among the first n raw items, all
\* decodable, taken in order; "" when there is none
RECURSIVE PrefixEdgeError(_, _, _)
PrefixEdgeError(n, i, id_list) ==
    IF i > n THEN ""
    ELSE LET id_entry == IdEntry_parse(idl.raw_list_items[i], draft).v
             e == Transition(id_list, id_entry)
         IN IF e # "" THEN e ELSE PrefixEdgeError(n, i + 1, Append(id_list, id_entry))

\* C17 as it is stated: the state machine is applied after every raw item
\* was decoded, so the decode error of an undecodable item is returned also
\* when the items before it violate the grammar.
C17_DecodeErrorFirst ==
    ItemsLoopLeft =>
        \A i \in 1..Len(idl.raw_list_items) :
            FirstUndecodable(i)
            => ErrIs(<<"IdListError">> \o IdEntry_parse(idl.raw_list_items[i], draft).e)

\* C17, as the code has it: each raw item is decoded and matched against
\* the last entry before the next item is decoded.  The decode error of an
\* undecodable item is returned when the items before it violate no edge of
\* the grammar; otherwise the error of the first violated edge is returned
\* and the loop never gets to the undecodable item.
C17_DecodeAndMatchInTurn ==
    ItemsLoopLeft =>
        \A i \in 1..Len(idl.raw_list_items) :
            FirstUndecodable(i)
            => LET e == PrefixEdgeError(i - 1, 1, <<>>)
               IN IF e = ""
                  THEN /\ ErrIs(<<"IdListError">>
                                \o IdEntry_parse(idl.raw_list_items[i], draft).e)
                       /\ idl.next = i
                  ELSE /\ ErrIs(<<"IdListError", e>>)
                       /\ idl.next < i

\* C17, the case: a Drive and then an item of unknown type; MissingRoot was
\* returned at the Drive
C17_Witness ==
    /\ pc = "done"
    /\ idl.raw_list_items = <<DriveItem, <<255, 255>> \o Zeros(4)>>
    /\ FirstUndecodable(2)
    /\ idl.next = 1
    /\ ErrIs(<<"IdListError", "MissingRoot">>)

\* a Folder or File item with the short name "a" whose bytes after the name
\* are none, or do not have 0xBEEF0004 where the signature would be
HasNoExtraData(item) ==
    /\ Len(item) >= 14
    /\ \E type_id \in {49, 50} : SubSeq(item, 1, 14) = ShortEntryItem(type_id)
    /\ (Len(item) < 22 \/ SubSeq(item, 19, 22) # EXTRA_SIGNATURE)

NoExtraFields(id_entry) ==
    /\ id_entry.t \in {"Folder", "File"}
    /\ ~id_entry.created.some /\ ~id_entry.accessed.some
    /\ ~id_entry.full_name.some /\ ~id_entry.localized_name.some

\* the errors of the match on id_list.last()
EdgeErrors ==
    {"MissingRoot", "UnsupportedRootType", "MissingDrive", "InvalidAfterDrive",
     "InvalidAfterFolder", "AnyAfterFile"}

\* the second loop stopped at raw item i before the match on id_list.last(),
\* or went past item i
StoppedAt(i) ==
    /\ pc = "done" /\ idl.lim > 0 /\ idl.next = i
    /\ result.e[2] \notin EdgeErrors
WentPast(i) == idl.lim > 0 /\ idl.next > i

\* C18: the extension of a Folder or File item is optional.  An item that
\* ends after its short name, or whose bytes after it do not carry
\* 0xBEEF0004, is decoded, with created, accessed, full_name and
\* localized_name absent; and an entry has one of the four only when its
\* item has the signature.
C18_ExtraDataOptional ==
    /\ \A i \in 1..Len(idl.raw_list_items) :
          (HasNoExtraData(idl.raw_list_items[i]) /\ idl.next >= i /\ idl.lim > 0)
          => /\ ~StoppedAt(i)
             /\ WentPast(i) => NoExtraFields(idl.id_list[i])
    /\ \A i \in 1..Len(idl.id_list) :
          (idl.id_list[i].t \in {"Folder", "File"} /\ ~NoExtraFields(idl.id_list[i]))
          => ~HasNoExtraData(idl.raw_list_items[i])

\* the same without the item that ends before the eight bytes of size,
\* version and signature: an item with those eight bytes and another
\* signature is decoded, with the four fields absent
C18_OtherSignatureSkipped ==
    /\ \A i \in 1..Len(idl.raw_list_items) :
          (/\ HasNoExtraData(idl.raw_list_items[i])
           /\ Len(idl.raw_list_items[i]) >= 22
           /\ idl.next >= i /\ idl.lim > 0)
          => /\ ~StoppedAt(i)
             /\ WentPast(i) => NoExtraFields(idl.id_list[i])
    /\ \A i \in 1..Len(idl.id_list) :
          (idl.id_list[i].t \in {"Folder", "File"} /\ ~NoExtraFields(idl.id_list[i]))
          => ~HasNoExtraData(idl.raw_list_items[i])

\* bytes 4..8 of the raw item are "APPS"
HasUwpMarker(item) == Len(item) >= 8 /\ SubSeq(item, 5, 8) = <<65, 80, 80, 83>>

\* C19: a raw item whose bytes 4..8 are "APPS" gives UwpUnsupported when the
\* second loop of IdList::parse gets to it, whatever its leading type bytes;
\* the loop never goes past it.
C19_UwpUnsupported ==
    idl.lim > 0 =>
        \A i \in 1..Len(idl.raw_list_items) :
            HasUwpMarker(idl.raw_list_items[i])
            => /\ idl.next <= i
               /\ (pc = "done" /\ idl.next = i)
                  => ErrIs(<<"IdListError", "UwpUnsupported">>)

\* C19, the case: behind Root(MyComputer) and a Drive, an item with the type
\* bytes of a File and the marker
C19_Witness ==
    /\ pc = "done"
    /\ idl.raw_list_items = <<MyComputerItem, DriveItem, UwpItem(<<50, 0, 0, 0>>)>>
    /\ idl.next = 3
    /\ ErrIs(<<"IdListError", "UwpUnsupported">>)

\* the bytes that Lnk::parse reads before the first optional substructure:
\* 20 of signature and class id, 8 of flags, 24 of timestamps, 12 of file
\* size, icon index and show command, 12 of hotkey and reserved fields
ParsedHeaderLen == 76

\* C20: Lnk::write emits 12 zero bytes after the show command, as many as
\* Lnk::parse reads there, so that the header it writes is 76 bytes long and
\* the first optional substructure starts where the parser reads it.
C20_HeaderIs76 ==
    [][wpc = "header"
       => /\ Len(out') = ParsedHeaderLen
          /\ SubSeq(out', 65, 76) = Zeros(12)]_vars

----------------------------------------------------------------------------
(* Properties of the string and date helpers, the LinkInfo, the property   *)
(* store and the tracker block.                                            *)

\* the call of read_c_utf8 has returned; the buffer has its first NUL at
\* index k and no byte before it that is no UTF-8
CStringReturned(k) ==
    /\ call.f = "read_c_utf8"
    /\ ret # NoRet
    /\ k \in 1..Len(call.b)
    /\ call.b[k] = 0
    /\ \A j \in 1..(k - 1) : call.b[j] = 97

\* C21 as it is stated: with padding, read_c_utf8 consumes the bytes up to
\* and including the first NUL and then one pad byte exactly when the number
\* of bytes consumed with the terminator is even; without padding it consumes
\* no byte after the terminator.
C21_PadWhenEvenWithNul ==
    call.f = "read_c_utf8" =>
        \A k \in 1..Len(call.b) :
            (CStringReturned(k) /\ k < Len(call.b))
            => /\ ret.st = "ok"
               /\ ret.pos = IF call.padding /\ k % 2 = 0 THEN k + 1 ELSE k

\* C21, as the code has it: the pad byte is read exactly when the string
\* without its terminator has an even number of bytes, that is when the
\* count with the terminator is odd; a missing pad byte is an I/O error.
\* Without padding nothing after the terminator is consumed.
C21_PadWhenEvenWithoutNul ==
    call.f = "read_c_utf8" =>
        \A k \in 1..Len(call.b) :
            CStringReturned(k)
            => IF call.padding /\ (k - 1) % 2 = 0
               THEN IF k < Len(call.b)
                    THEN ret.st = "ok" /\ ret.pos = k + 1
                    ELSE ret.st = "err" /\ ret.e = <<"IoError">>
               ELSE ret.st = "ok" /\ ret.pos = k

\* C21, the case: "aa" and its NUL, three bytes, followed by a byte that is
\* read as the pad
C21_Witness ==
    /\ call.f = "read_c_utf8"
    /\ call.padding
    /\ call.b = <<97, 97, 0, 255>>
    /\ ret.st = "ok"
    /\ ret.pos = 4

\* write_dos_datetime has returned its four bytes
DosWritten == call.f = "write_dos_datetime" /\ ret # NoRet

\* the two 16-bit words of the bytes written
WrittenDate == ret.v[1] + 256 * ret.v[2]
WrittenTime == ret.v[3] + 256 * ret.v[4]

\* C22: for a calendar timestamp of 1980..2107 with an even number of
\* seconds, read_dos_datetime on the bytes of write_dos_datetime returns the
\* timestamp; the year offset, month, day, hour and minute are in their bit
\* ranges and the seconds field holds seconds / 2.
C22_DosRoundTrip ==
    (DosWritten /\ call.datetime[6] % 2 = 0)
    => /\ read_dos_datetime(ret.v, 0, 4) = Ok(call.datetime, 4)
       /\ get_bits(WrittenDate, 9, 7) = call.datetime[1] - 1980
       /\ get_bits(WrittenDate, 5, 4) = call.datetime[2]
       /\ get_bits(WrittenDate, 0, 5) = call.datetime[3]
       /\ get_bits(WrittenTime, 11, 5) = call.datetime[4]
       /\ get_bits(WrittenTime, 5, 6) = call.datetime[5]
       /\ get_bits(WrittenTime, 0, 5) = call.datetime[6] \div 2

\* the round trip alone, for the timestamps with at most 31 seconds: the
\* seconds are stored and read as they are
C22_RoundTripBelow32 ==
    (DosWritten /\ call.datetime[6] < 32)
    => /\ read_dos_datetime(ret.v, 0, 4) = Ok(call.datetime, 4)
       /\ get_bits(WrittenTime, 0, 5) = call.datetime[6]

\* what LinkInfo::parse has before it takes the fields out of the data pool:
\* the limit of its reader, the LinkOffsets, and remaining_data
NextLinkInfoLimit ==
    Take(pos + 4, Len(input), WrapSub(read_u32(input, pos, Len(input)).v, 4))
NextLinkOffsets == LinkOffsets_parse(input, pos + 4, NextLinkInfoLimit, build)
NextDataPool == SubSeq(input, NextLinkOffsets.pos + 1, NextLinkInfoLimit)

\* LinkInfo::parse is about to run on a LinkInfo whose header is well formed
\* and has an offset of a common network relative link
NetworkLinkNext ==
    /\ pc = "link_info"
    /\ HasLinkInfo(lnk.link_flags)
    /\ Len(input) - pos >= 4
    /\ read_u32(input, pos, Len(input)).v >= 4
    /\ NextLinkOffsets.st = "ok"
    /\ NextLinkOffsets.v.common_network_relative_link.some

RelativeNetworkLinkUnsupported ==
    [kind |-> "Err", e |-> <<"LinkInfoError", "RelativeNetworkLinkUnsupported">>]

\* C23 as it is stated: with the offset of a common network relative link in
\* a well-formed header, LinkInfo::parse fails with
\* RelativeNetworkLinkUnsupported, whatever the data pool holds.
C23_NetworkLinkRefusedFirst ==
    [][NetworkLinkNext => (pc' = "done" /\ result' = RelativeNetworkLinkUnsupported)]_vars

\* C23, as the code has it: the offset of the network link is looked at
\* after the volume id, the local base path and the common path suffix were
\* taken out of the data pool.  The parse never succeeds; it fails with
\* RelativeNetworkLinkUnsupported when those three decode, and otherwise
\* with the error or the panic that the same data pool gives without the
\* network link.
C23_NetworkLinkRefusedLast ==
    [][NetworkLinkNext =>
        LET without == [NextLinkOffsets.v EXCEPT !.common_network_relative_link = None]
            f == LinkInfo_fields(NextDataPool, without, build)
        IN /\ pc' = "done"
           /\ IF f.st = "ok" THEN result' = RelativeNetworkLinkUnsupported
              ELSE result' = [kind |-> IF f.st = "panic" THEN "Panic" ELSE "Err",
                              e |-> Wrap("LinkInfoError", f).e]]_vars

\* C23, the case: a header with both flags and a volume id of drive type 9;
\* InvalidDriveType was returned, not RelativeNetworkLinkUnsupported
C23_Witness ==
    /\ pc = "done"
    /\ pos = 76
    /\ Len(input) >= 128
    /\ SubSeq(input, 77, 128) = NetLinkInfoBytes(3, 9, 51)
    /\ ErrIs(<<"LinkInfoError", "VolumeIdParseError", "InvalidDriveType">>)

\* the format id of the PropertyStore block that the next iteration of
\* BlockData::parse starts on, and of the block that the last one decoded
NextFormatId == SubSeq(input, pos + 17, pos + 32)
LastFormatId == SubSeq(input, blk.last.start + 9, blk.last.start + 24)

\* a second PropertyStore block is next, and neither its format id nor the
\* different one of the first block has typed fields
SecondStoreNext ==
    /\ pc = "block_data"
    /\ blk.count = 1
    /\ blk.last.signature = "PropertyStoreDataBlock"
    /\ Len(input) - pos >= 32
    /\ SubSeq(input, pos + 5, pos + 8) = <<9, 0, 0, 160>>
    /\ NextFormatId # LastFormatId
    /\ {NextFormatId, LastFormatId}
           \cap {SystemBasicFormatId, AppUserModelFormatId, FMTID_STORAGE} = {}

\* C24: when PropertyStore::parse has run on a block with one format id and
\* then runs on a block with another, neither with typed fields, every
\* id-keyed value of the first block is in the store afterwards with the
\* value it had, also when the second block has the same property id.
C24_FirstBlockKept ==
    [][SecondStoreNext =>
        \A i \in 1..Len(lnk.block_data.property_store.unparsed_id_values) :
            LET kept == lnk.block_data.property_store.unparsed_id_values[i]
                after == lnk'.block_data.property_store.unparsed_id_values
            IN /\ pc' = "block_data"
               /\ MapHas(after, kept[1])
               /\ MapGet(after, kept[1]) = kept[2]]_vars

\* the same for a second block with other property ids than the first
C24_OtherIdsKept ==
    [][SecondStoreNext =>
        \A i \in 1..Len(lnk.block_data.property_store.unparsed_id_values) :
            LET kept == lnk.block_data.property_store.unparsed_id_values[i]
                after == lnk'.block_data.property_store.unparsed_id_values
            IN /\ pc' = "block_data"
               /\ (SubSeq(input, pos + 37, pos + 40) # LE32(kept[1]))
                  => /\ MapHas(after, kept[1])
                     /\ MapGet(after, kept[1]) = kept[2]]_vars

\* the field of the typed record that C25 gives to a property id of the basic
\* item properties
ClaimedField(id) ==
    CASE id = 4 -> "item_type_text"
      [] id = 10 -> "item_name_display"
      [] id = 12 -> "size"
      [] id = 14 -> "date_created"
      [] id = 15 -> "date_modified"

\* C25: under the format id of the basic item properties, property id 14
\* sets date_created and property id 15 sets date_modified; ids 4, 10 and 12
\* set item_type_text, item_name_display and size.  Stated of
\* SystemBasicProperties::from_raw and of PropertyStore::parse.
C25_DateIds ==
    /\ (call.f = "SystemBasicProperties::from_raw" /\ ret.st = "ok")
       => \A i \in 1..Len(call.properties) :
             ret.v[ClaimedField(call.properties[i][1])] = Some(call.properties[i][2].v)
    /\ \A id \in BasicPropertyIds, tv \in TypedValues :
          (/\ call.f = "PropertyStore::parse"
           /\ call.b = StoreBytes(SystemBasicFormatId, <<IdEntryBytes(id, tv)>>)
           /\ ret.st = "ok")
          => ret.v[ClaimedField(id)] = Some(parse_typed_property_value(tv).v.v)

\* the part of C25 about PropertyStore::parse
C25_StoreDateIds ==
    \A id \in BasicPropertyIds, tv \in TypedValues :
        (/\ call.f = "PropertyStore::parse"
         /\ call.b = StoreBytes(SystemBasicFormatId, <<IdEntryBytes(id, tv)>>)
         /\ ret.st = "ok")
        => ret.v[ClaimedField(id)] = Some(parse_typed_property_value(tv).v.v)

\* the fields of the payload that the tracker decoder was called on
TrackerReturned == call.f = "TrackerDataBlock::parse" /\ ret # NoRet
TrackerLength == call.b[1] + 256 * call.b[2]
TrackerVersion == call.b[5] + 256 * call.b[6]
TrackerMachineId == SubSeq(call.b, 9, 24)

\* C26: the tracker decoder gives InvalidLength for a Length other than 0x58
\* and InvalidVersion for a Version other than 0, and the machine_id it
\* returns is the bytes of the MachineID field before the field's first NUL.
C26_TrackerMachineId ==
    TrackerReturned
    => /\ TrackerLength # 88 => (ret.st = "err" /\ ret.e = <<"InvalidLength">>)
       /\ (TrackerLength = 88 /\ TrackerVersion # 0)
          => (ret.st = "err" /\ ret.e = <<"InvalidVersion">>)
       /\ ret.st = "ok"
          => ret.v.machine_id
               = from_utf8_lossy(SubSeq(TrackerMachineId, 1,
                                        FirstNul(TrackerMachineId, 1) - 1), 1)

\* the part of C26 about Length and Version
C26_LengthAndVersion ==
    TrackerReturned
    => /\ TrackerLength # 88 => (ret.st = "err" /\ ret.e = <<"InvalidLength">>)
       /\ (TrackerLength = 88 /\ TrackerVersion # 0)
          => (ret.st = "err" /\ ret.e = <<"InvalidVersion">>)

-----------------------------------------------------------------------------
(* post_embed.rs: the payload appended to an executable, and its reader.   *)

MaxExe == 2
MaxPayload == 3
MaxSeek == 4
MaxBuf == 2
MaxOps == 3

FINGERPRINT ==
    <<244, 172, 42, 64, 1, 149, 98, 119, 52, 235, 129, 177, 205, 47, 231, 1,
      147, 89, 218, 224, 27, 122, 141, 64, 120, 107, 235, 22, 76, 88, 1, 86>>

\* u64::to_le_bytes for the lengths of the model, all below 2^32.
to_le_bytes(n) == LE32(n) \o Zeros(4)

\* (x as u64) for an i64 x: a negative x wraps to 2^64 + x, which BIG + x
\* stands for; it lies above every file length of the model.
AsU64(x) == IF x >= 0 THEN x ELSE BIG + x

ExeBytes == <<77, 90, 144, 0>>
PayloadBytes == <<10, 20, 30, 40, 50, 60>>

\* What append_data leaves on disk once the writer was flushed: the
\* executable, the payload, the payload's length and the fingerprint.
EmbeddedFile(exe, payload) ==
    exe \o payload \o to_le_bytes(Len(payload)) \o FINGERPRINT

ReaderFiles ==
    {EmbeddedFile(SubSeq(ExeBytes, 1, e), SubSeq(PayloadBytes, 1, n)) :
        e \in 0..MaxExe, n \in 0..MaxPayload}
    \cup {SubSeq(ExeBytes, 1, 2), SubSeq(ExeBytes, 1, 2) \o Zeros(40)}

EmbeddedReader_new(file, start, length) ==
    [st |-> "some", file |-> file, cursor |-> start,
     start |-> start, end |-> start + length, position |-> start]

\* EmbeddedReader::seek: new_pos is the position handed to file.seek, which
\* is also what file.seek returns.
EmbeddedReader_seek(r, from, n) ==
    LetIn(CASE from = "Start" -> Min(n + r.start, r.end)
            [] from = "End" -> Max(Min(AsU64(r.end - n), r.end), r.start)
            [] OTHER -> IF r.position + n > r.end THEN r.end
                        ELSE IF r.position + n < r.start THEN r.start
                        ELSE r.cursor + n,
          LAMBDA new_pos :
              [r |-> [r EXCEPT !.cursor = new_pos, !.position = new_pos],
               v |-> new_pos - r.start])

\* search_for_embedded_data on the running executable's bytes.
search_for_embedded_data(file) ==
    IF Len(file) < 32 THEN [st |-> "err"]
    ELSE IF SubSeq(file, Len(file) - 31, Len(file)) # FINGERPRINT THEN NoReader
    ELSE IF Len(file) < 40 THEN [st |-> "err"]
    ELSE LetIn(U32Sat(SubSeq(file, Len(file) - 39, Len(file) - 36)),
               LAMBDA length :
                   IF Len(file) - 40 - length < 0 THEN [st |-> "err"]
                   ELSE EmbeddedReader_seek(
                            EmbeddedReader_new(file, Len(file) - 40 - length, length),
                            "Start", 0).r)

SeekFroms ==
    ({"Start"} \X (0..MaxSeek)) \cup ({"End", "Current"} \X ((0 - MaxSeek)..MaxSeek))

InitReader ==
    /\ \E file \in ReaderFiles : reader = search_for_embedded_data(file)
    /\ writer = NoWriter
    /\ io = NoIo
    /\ ui = NoUi
    /\ ParserIdle
    /\ WriterIdle
    /\ CallIdle

\* impl Seek for EmbeddedReader
EmbeddedReaderSeek ==
    /\ reader.st = "some"
    /\ io.k < MaxOps
    /\ \E s \in SeekFroms :
           LET o == EmbeddedReader_seek(reader, s[1], s[2])
           IN /\ reader' = o.r
              /\ io' = [k |-> io.k + 1, st |-> "ok", e |-> "", op |-> "seek", from |-> s[1], arg |-> s[2],
                        v |-> o.v, bytes |-> <<>>]
    /\ UNCHANGED <<parseVars, writeVars, callVars, writer, ui>>

\* impl Read for EmbeddedReader, on a buffer of len bytes; file.read may
\* hand out fewer bytes than asked for, but at least one.
EmbeddedReaderRead ==
    /\ reader.st = "some"
    /\ io.k < MaxOps
    /\ \E len \in 0..MaxBuf :
           LET max == IF reader.position = reader.end THEN 0
                      ELSE Min(len, reader.end - reader.position)
           IN \E n \in (IF max = 0 THEN {0} ELSE 1..max) :
                  /\ reader' = [reader EXCEPT !.cursor = reader.cursor + n,
                                              !.position = reader.position + n]
                  /\ io' = [k |-> io.k + 1, st |-> "ok", e |-> "", op |-> "read", from |-> "", arg |-> len,
                            v |-> n,
                            bytes |-> SubSeq(reader.file, reader.cursor + 1,
                                             reader.cursor + n)]
    /\ UNCHANGED <<parseVars, writeVars, callVars, writer, ui>>

\* EmbeddedReader::move_start_to_current
EmbeddedReaderMoveStart ==
    /\ reader.st = "some"
    /\ io.k < MaxOps
    /\ reader' = [reader EXCEPT !.start = reader.position]
    /\ io' = [k |-> io.k + 1, st |-> "ok", e |-> "", op |-> "move_start", from |-> "", arg |-> 0,
              v |-> 0, bytes |-> <<>>]
    /\ UNCHANGED <<parseVars, writeVars, callVars, writer, ui>>

NextReader ==
    \/ EmbeddedReaderSeek
    \/ EmbeddedReaderRead
    \/ EmbeddedReaderMoveStart

SpecReader == InitReader /\ [][NextReader]_vars

-----------------------------------------------------------------------------
(* post_embed.rs: AppendDataWriter, which appends the payload and, on      *)
(* flush, its length and the fingerprint.  The calls of the operating      *)
(* system on the file succeed unless the position sought is negative.      *)

AlreadyFlushed == "Already Flushed"

\* File::write of data at the cursor: bytes in place are overwritten, a gap
\* behind the end of the file is filled with zeros.
WriteAt(file, cursor, data) ==
    IF data = <<>> THEN file
    ELSE [i \in 1..Max(Len(file), cursor + Len(data)) |->
              IF i > cursor /\ i <= cursor + Len(data) THEN data[i - cursor]
              ELSE IF i <= Len(file) THEN file[i]
              ELSE 0]

AppendDataWriter_new(file) ==
    [st |-> "open", file |-> file, cursor |-> Len(file),
     initial_start |-> Len(file), start |-> Len(file), flushed |-> FALSE]

\* Write::write, where File::write took the first n bytes of buf.
AppendDataWriter_write(w, buf, n) ==
    IF w.flushed THEN [w |-> w, st |-> "err", e |-> AlreadyFlushed, v |-> 0]
    ELSE [w |-> [w EXCEPT !.file = WriteAt(w.file, w.cursor, SubSeq(buf, 1, n)),
                          !.cursor = w.cursor + n],
          st |-> "ok", e |-> "", v |-> n]

\* Write::flush without its guard.
AppendDataWriter_flush_unguarded(w) ==
    [w |-> [w EXCEPT !.flushed = TRUE,
                     !.file = w.file \o to_le_bytes(Len(w.file) - w.initial_start)
                                     \o FINGERPRINT,
                     !.cursor = Len(w.file) + 40],
     st |-> "ok", e |-> "", v |-> 0]

\* Write::flush: total_size is the length of the file.
AppendDataWriter_flush(w) ==
    IF w.flushed THEN [w |-> w, st |-> "err", e |-> AlreadyFlushed, v |-> 0]
    ELSE LetIn(Len(w.file),
               LAMBDA total_size :
                   [w |-> [w EXCEPT !.flushed = TRUE,
                                    !.file = w.file
                                             \o to_le_bytes(total_size - w.initial_start)
                                             \o FINGERPRINT,
                                    !.cursor = total_size + 40],
                    st |-> "ok", e |-> "", v |-> 0])

\* Seek::seek: new_pos is what file.seek returns.  In the Current arm the
\* cursor is put back on start when it fell below it, new_pos is returned
\* all the same; new_pos - self.start overflows when new_pos is below start.
AppendDataWriter_seek(w, from, n, bld) ==
    LetIn(CASE from = "Start" -> n + w.start
            [] from = "End" -> Len(w.file) + n
            [] OTHER -> w.cursor + n,
          LAMBDA new_pos :
              IF new_pos < 0
              THEN [w |-> w, st |-> "err", e |-> "InvalidInput", v |-> 0]
              ELSE LetIn([w EXCEPT !.cursor = IF from = "Current" /\ new_pos < w.start
                                             THEN w.start ELSE new_pos],
                         LAMBDA moved :
                             IF new_pos >= w.start
                             THEN [w |-> moved, st |-> "ok", e |-> "",
                                   v |-> new_pos - w.start]
                             ELSE IF bld = "debug"
                             THEN [w |-> [moved EXCEPT !.st = "panicked"],
                                   st |-> "panic",
                                   e |-> "attempt to subtract with overflow",
                                   v |-> 0]
                             ELSE [w |-> moved, st |-> "ok", e |-> "",
                                   v |-> AsU64(new_pos - w.start)]))

WriteBufs == {<<>>, <<1>>, <<1, 2>>}

WriterOffsets == {-3, -1, 0, 2}

WriterSeekFroms ==
    {s \in {"Start", "End", "Current"} \X WriterOffsets : s[1] = "Start" => s[2] >= 0}

InitAppend ==
    /\ \E e \in 0..MaxExe : writer = AppendDataWriter_new(SubSeq(ExeBytes, 1, e))
    /\ reader = NoReader
    /\ io = NoIo
    /\ ui = NoUi
    /\ draft = "lnk_rs"
    /\ build \in Builds
    /\ input = <<>>
    /\ pc = "idle"
    /\ pos = 0
    /\ lnk = Lnk_new
    /\ idl = IdList_new
    /\ blk = Blk_new
    /\ result = NoResult
    /\ WriterIdle
    /\ CallIdle

\* impl Write for AppendDataWriter: write
AppendWrite ==
    /\ writer.st = "open"
    /\ io.k < MaxOps
    /\ \E buf \in WriteBufs :
           \E n \in (IF buf = <<>> THEN {0} ELSE 1..Len(buf)) :
               LET o == AppendDataWriter_write(writer, buf, n)
               IN /\ writer' = o.w
                  /\ io' = [k |-> io.k + 1, st |-> o.st, e |-> o.e, op |-> "write",
                            from |-> "", arg |-> 0, v |-> o.v, bytes |-> buf]
    /\ UNCHANGED <<parseVars, writeVars, callVars, reader, ui>>

\* impl Write for AppendDataWriter: flush
AppendFlush ==
    /\ writer.st = "open"
    /\ io.k < MaxOps
    /\ LET o == AppendDataWriter_flush(writer)
       IN /\ writer' = o.w
          /\ io' = [k |-> io.k + 1, st |-> o.st, e |-> o.e, op |-> "flush",
                    from |-> "", arg |-> 0, v |-> o.v, bytes |-> <<>>]
    /\ UNCHANGED <<parseVars, writeVars, callVars, reader, ui>>

\* impl Seek for AppendDataWriter
AppendSeek ==
    /\ writer.st = "open"
    /\ io.k < MaxOps
    /\ \E s \in WriterSeekFroms :
           LET o == AppendDataWriter_seek(writer, s[1], s[2], build)
           IN /\ writer' = o.w
              /\ io' = [k |-> io.k + 1, st |-> o.st, e |-> o.e, op |-> "seek",
                        from |-> s[1], arg |-> s[2], v |-> o.v, bytes |-> <<>>]
    /\ UNCHANGED <<parseVars, writeVars, callVars, reader, ui>>

\* AppendDataWriter::move_start_to_current
AppendMoveStart ==
    /\ writer.st = "open"
    /\ io.k < MaxOps
    /\ writer' = [writer EXCEPT !.start = writer.cursor]
    /\ io' = [k |-> io.k + 1, st |-> "ok", e |-> "", op |-> "move_start",
              from |-> "", arg |-> 0, v |-> 0, bytes |-> <<>>]
    /\ UNCHANGED <<parseVars, writeVars, callVars, reader, ui>>

NextAppend ==
    \/ AppendWrite
    \/ AppendFlush
    \/ AppendSeek
    \/ AppendMoveStart

SpecAppend == InitAppend /\ [][NextAppend]_vars

-----------------------------------------------------------------------------
(* ui.rs and wizard/basic.rs: InstallerUi::update over a BasicWizard.      *)
(* Progress is kept in percent.                                            *)

InstallPaths == {"C:\\Programs\\App", "D:\\App"}
DefaultInstallPath == "C:\\Programs\\App"
Percents == {0, 50, 100}

\* BasicWizardConfig::to_installer and BasicWizard::from_config
BasicWizard_from_config ==
    [config |-> Some([install_path |-> DefaultInstallPath,
                      create_start_menu_shortcut |-> TRUE,
                      create_desktop_shortcut |-> FALSE]),
     selecting_path |-> FALSE,
     step |-> "SelectInstallPath"]

WMsg(t, b, path) == [t |-> t, b |-> b, path |-> path]
NoWMsg == WMsg("", FALSE, None)

WizardMessages ==
    {WMsg(t, FALSE, None) : t \in {"SelectInstallPath", "Back", "Next"}}
    \cup {WMsg("SetInstallPath", FALSE, p) : p \in {None} \cup {Some(x) : x \in InstallPaths}}
    \cup {WMsg(t, b, None) : t \in {"StartMenuShortcut", "DesktopShortcut"}, b \in BOOLEAN}

\* config.as_mut() and an assignment to one field of the InstallConfig
SetInstallPath(config, path) ==
    IF config.some THEN Some([config.v EXCEPT !.install_path = path]) ELSE config

SetStartMenu(config, b) ==
    IF config.some THEN Some([config.v EXCEPT !.create_start_menu_shortcut = b]) ELSE config

SetDesktop(config, b) ==
    IF config.some THEN Some([config.v EXCEPT !.create_desktop_shortcut = b]) ELSE config

WAct(w, action, config) == [w |-> w, action |-> action, config |-> config]

\* impl Wizard for BasicWizard: update
BasicWizard_update(w, m) ==
    CASE m.t = "SelectInstallPath" ->
             WAct([w EXCEPT !.selecting_path = TRUE], "Run", None)
      [] m.t = "SetInstallPath" ->
             WAct([w EXCEPT !.selecting_path = FALSE,
                            !.config = IF m.path.some
                                       THEN SetInstallPath(w.config, m.path.v)
                                       ELSE w.config],
                  "None", None)
      [] m.t = "StartMenuShortcut" ->
             WAct([w EXCEPT !.config = SetDesktop(w.config, m.b)], "None", None)
      [] m.t = "DesktopShortcut" ->
             WAct([w EXCEPT !.config = SetStartMenu(w.config, m.b)], "None", None)
      [] m.t = "Back" ->
             IF w.step = "SelectInstallPath" THEN WAct(w, "Back", None)
             ELSE WAct([w EXCEPT !.step = "SelectInstallPath"], "None", None)
      [] OTHER ->
             IF w.step = "SelectInstallPath"
             THEN WAct([w EXCEPT !.step = "SetInstallOptions"], "None", None)
             ELSE IF w.config.some
             THEN WAct([w EXCEPT !.config = None], "Install", w.config)
             ELSE WAct(w, "None", None)

UMsg(t, w, p) == [t |-> t, w |-> w, p |-> p]

\* InstallerUi::start
InstallerUi_start ==
    [step |-> "Introduction", wizard |-> BasicWizard_from_config, progress |-> 0,
     finished |-> FALSE, error |-> FALSE, installing |-> None, exited |-> FALSE,
     msg |-> UMsg("", NoWMsg, 0), action |-> ""]

InitUi ==
    /\ ui = InstallerUi_start
    /\ reader = NoReader
    /\ writer = NoWriter
    /\ io = NoIo
    /\ ParserIdle
    /\ WriterIdle
    /\ CallIdle

\* update(Message::Wizard(message)); installing is the InstallConfig that
\* self.install was called with.
UiWizard ==
    /\ ui.step # "none"
    /\ ~ui.exited
    /\ \E m \in WizardMessages :
           LET o == BasicWizard_update(ui.wizard, m)
               got == [ui EXCEPT !.msg = UMsg("Wizard", m, 0)]
           IN ui' = IF ui.step # "Wizard" THEN [got EXCEPT !.action = ""]
                    ELSE IF o.action = "Back"
                    THEN [got EXCEPT !.wizard = o.w, !.action = o.action,
                                     !.step = "Introduction"]
                    ELSE IF o.action = "Install"
                    THEN [got EXCEPT !.wizard = o.w, !.action = o.action,
                                     !.step = "Installing", !.progress = 0,
                                     !.installing = o.config]
                    ELSE [got EXCEPT !.wizard = o.w, !.action = o.action]
    /\ UNCHANGED <<parseVars, writeVars, callVars, reader, writer, io>>

\* update(Message::Next)
UiNext ==
    /\ ui.step # "none"
    /\ ~ui.exited
    /\ ui' = [ui EXCEPT !.msg = UMsg("Next", NoWMsg, 0), !.action = "",
                        !.step = CASE ui.step = "Introduction" -> "Wizard"
                                   [] ui.step = "Installing" -> "Completed"
                                   [] OTHER -> ui.step]
    /\ UNCHANGED <<parseVars, writeVars, callVars, reader, writer, io>>

\* update(Message::Progress(progress))
UiProgress ==
    /\ ui.step # "none"
    /\ ~ui.exited
    /\ \E p \in Percents :
           ui' = [ui EXCEPT !.msg = UMsg("Progress", NoWMsg, p), !.action = "",
                            !.progress = p]
    /\ UNCHANGED <<parseVars, writeVars, callVars, reader, writer, io>>

\* update(Message::InstallDone)
UiInstallDone ==
    /\ ui.step # "none"
    /\ ~ui.exited
    /\ ui' = [ui EXCEPT !.msg = UMsg("InstallDone", NoWMsg, 0), !.action = "",
                        !.finished = TRUE, !.progress = 100]
    /\ UNCHANGED <<parseVars, writeVars, callVars, reader, writer, io>>

\* update(Message::InstallError(error))
UiInstallError ==
    /\ ui.step # "none"
    /\ ~ui.exited
    /\ ui' = [ui EXCEPT !.msg = UMsg("InstallError", NoWMsg, 0), !.action = "",
                        !.error = TRUE]
    /\ UNCHANGED <<parseVars, writeVars, callVars, reader, writer, io>>

\* update(Message::Finish): exit() closes the application.
UiFinish ==
    /\ ui.step # "none"
    /\ ~ui.exited
    /\ ui' = [ui EXCEPT !.msg = UMsg("Finish", NoWMsg, 0), !.action = "",
                        !.exited = TRUE]
    /\ UNCHANGED <<parseVars, writeVars, callVars, reader, writer, io>>

NextUi ==
    \/ UiWizard
    \/ UiNext
    \/ UiProgress
    \/ UiInstallDone
    \/ UiInstallError
    \/ UiFinish

SpecUi == InitUi /\ [][NextUi]_vars

-----------------------------------------------------------------------------
(* Properties of the embedded payload's reader and writer.                 *)

SeekDone == io'.k = io.k + 1 /\ io'.op = "seek"

ReadAfterSeek == io.op = "seek" /\ io'.k = io.k + 1 /\ io'.op = "read"

\* Where std::io::Seek puts the cursor, as an offset into the file.
StdTarget ==
    CASE io'.from = "Start" -> reader.start + io'.arg
      [] io'.from = "End" -> reader.end + io'.arg
      [] OTHER -> reader.position + io'.arg

SeekLandsOnStdTarget ==
    /\ reader'.position = Max(Min(StdTarget, reader.end), reader.start)
    /\ io'.v = reader'.position - reader.start

\* C27: EmbeddedReader::seek moves to end + n for SeekFrom::End(n), to
\* start + n for SeekFrom::Start(n) and to position + n for
\* SeekFrom::Current(n), each clamped to [start, end]; it returns the new
\* position minus start, and a read that follows returns the file's bytes
\* at that position.
C27_SeekFollowsStd ==
    [][/\ SeekDone => SeekLandsOnStdTarget
       /\ ReadAfterSeek =>
              io'.bytes = SubSeq(reader.file, reader.position + 1,
                                 reader.position + io'.v)]_vars

\* C27, the arms that do follow std::io::Seek: Start and Current.
C27_StartAndCurrentFollowStd ==
    [][/\ SeekDone /\ io'.from # "End" => SeekLandsOnStdTarget
       /\ ReadAfterSeek =>
              io'.bytes = SubSeq(reader.file, reader.position + 1,
                                 reader.position + io'.v)]_vars

\* C27, the End arm as coded: SeekFrom::End(n) lands on end - n.
C27_EndArmSubtracts ==
    [][SeekDone /\ io'.from = "End" /\ io'.arg \in 0..(reader.end - reader.start)
           => reader'.position = reader.end - io'.arg]_vars

\* The file ends with the trailer of a payload that began at initial_start.
EndsWithTrailer(w) ==
    /\ Len(w.file) >= w.initial_start + 40
    /\ SubSeq(w.file, Len(w.file) - 31, Len(w.file)) = FINGERPRINT
    /\ SubSeq(w.file, Len(w.file) - 39, Len(w.file) - 32)
           = to_le_bytes(Len(w.file) - 40 - w.initial_start)

LaterWriteOrFlush ==
    writer.flushed /\ io'.k = io.k + 1 /\ io'.op \in {"write", "flush"}

-----------------------------------------------------------------------------
(* Properties of InstallerUi and BasicWizard.                              *)

StepMoves ==
    {<<"Introduction", "Wizard">>, <<"Wizard", "Installing">>,
     <<"Installing", "Completed">>, <<"Wizard", "Introduction">>}

StepFlow == ui'.step = ui.step \/ <<ui.step, ui'.step>> \in StepMoves

WizardMessageIgnored ==
    ui'.msg.t = "Wizard" /\ ui.step # "Wizard"
        => ui' = [ui EXCEPT !.msg = ui'.msg, !.action = ""]

\* C29: whatever messages update is given, the step only moves
\* Introduction -> Wizard -> Installing -> Completed or Wizard ->
\* Introduction, a wizard message changes nothing unless the step is
\* Wizard, and the step becomes Completed only when finished is true, that
\* is after InstallDone was processed.
C29_StepFlow ==
    [][/\ StepFlow
       /\ WizardMessageIgnored
       /\ ui'.step = "Completed" /\ ui.step # "Completed" => ui.finished]_vars

\* C29 without its last part: the moves of the step and the wizard
\* messages outside the Wizard step.
C29_MovesAndIgnoredMessages == [][StepFlow /\ WizardMessageIgnored]_vars

\* A toggle that reached BasicWizard::update while its config was in place.
ToggleDone(t) ==
    /\ ui.step = "Wizard"
    /\ ui.wizard.config.some
    /\ ui'.msg.t = "Wizard"
    /\ ui'.msg.w.t = t

ToggleKeepsStepAndPath ==
    /\ ui'.step = ui.step
    /\ ui'.wizard.step = ui.wizard.step
    /\ ui'.wizard.config.v.install_path = ui.wizard.config.v.install_path

\* C30: StartMenuShortcut(b) sets create_start_menu_shortcut to b and leaves
\* create_desktop_shortcut alone, DesktopShortcut(b) sets
\* create_desktop_shortcut to b and leaves create_start_menu_shortcut alone,
\* neither changes the step or the install path, and the InstallConfig that
\* the final Next hands out is the config as the toggles left it.
C30_TogglesSetTheirOption ==
    [][/\ ToggleDone("StartMenuShortcut") =>
              /\ ui'.wizard.config.v.create_start_menu_shortcut = ui'.msg.w.b
              /\ ui'.wizard.config.v.create_desktop_shortcut
                     = ui.wizard.config.v.create_desktop_shortcut
              /\ ToggleKeepsStepAndPath
       /\ ToggleDone("DesktopShortcut") =>
              /\ ui'.wizard.config.v.create_desktop_shortcut = ui'.msg.w.b
              /\ ui'.wizard.config.v.create_start_menu_shortcut
                     = ui.wizard.config.v.create_start_menu_shortcut
              /\ ToggleKeepsStepAndPath
       /\ ui'.action = "Install" /\ ui.step = "Wizard" /\ ui'.step = "Installing"
              => ui'.installing = ui.wizard.config]_vars

\* C30 as coded: each toggle sets the other option; the step, the install
\* path and the hand-over of the config are as claimed.
C30_TogglesSetTheOtherOption ==
    [][/\ ToggleDone("StartMenuShortcut") =>
              /\ ui'.wizard.config.v.create_desktop_shortcut = ui'.msg.w.b
              /\ ui'.wizard.config.v.create_start_menu_shortcut
                     = ui.wizard.config.v.create_start_menu_shortcut
              /\ ToggleKeepsStepAndPath
       /\ ToggleDone("DesktopShortcut") =>
              /\ ui'.wizard.config.v.create_start_menu_shortcut = ui'.msg.w.b
              /\ ui'.wizard.config.v.create_desktop_shortcut
                     = ui.wizard.config.v.create_desktop_shortcut
              /\ ToggleKeepsStepAndPath
       /\ ui'.action = "Install" /\ ui.step = "Wizard" /\ ui'.step = "Installing"
              => ui'.installing = ui.wizard.config]_vars

====
